---- MODULE Spec2Model ----
(***************************************************************************)
(* Rotation and ranking engine of the pickleball ladder league programs:   *)
(* SeededLadderLeague (seeded_ladder_league.py), RoundRobinLeague          *)
(* (ladder_league.py), MixedDoublesLeague (mixed_doubles_league.py) and    *)
(* the greedy LadderLeague (ladder_league_old.py).  One engine object is   *)
(* modelled at a time; `app` says which class it is an instance of.        *)
(***************************************************************************)
EXTENDS Integers, Sequences, FiniteSets, TLC

----------------------------------------------------------------------------
(* Bounds of the model *)

\* how many distinct names callers may pass to add_player / remove_player
MaxPlayers == 6
\* rounds generated per session
MaxRounds == 2
\* highest session number reached
MaxSessions == 3
\* highest display number handed out
MaxNumber == 7
\* cap on games_played of one participant
MaxGames == 2
\* calls made to one engine object
MaxCalls == 2
\* the four players every court takes
PlayersPerCourt == 4
\* the tier size from which perform_promotion_relegation swaps
SwapTierSize == 4
\* calls made to an engine that is reset and seeded again
MaxReseedCalls == 5
\* largest pool handed to select_sitting_players on its own
MaxPool == 4
\* the round that select_sitting_players on its own selects for
SelectRound == 3
\* largest roster a seeding session ends with
MaxSeeded == 20
\* largest tier a tiered session ends with
MaxTierSize == 5
\* largest roster of players, and of teams, that generates rounds
MaxRoster == 16
MaxTeams == 9
\* times the court setup is saved in one run
MaxSetups == 1
\* rounds the win/loss leagues play
MaxWinLossRounds == 1
\* largest roster of the greedy ladder, rounds it generates, and calls that
\* change its roster
MaxLadderRoster == 17
MaxLadderRounds == 2
MaxLadderEdits == 1
\* calls made to an engine that plays sessions with players sitting out
MaxSessionCalls == 3
\* calls made to an engine whose roster and sessions are also cleared
MaxRosterCalls == 2
\* rounds of the session in which the nine take turns sitting out
MaxRotationRounds == 10
\* lists up to this length are shuffled into every permutation; longer
\* lists into every rotation
MaxShuffle == 3

NamePool ==
    << "a", "b", "c", "d", "e", "f", "g", "h", "i", "j", "k",
       "l", "m", "n", "o", "p", "q", "r", "s", "t", "u", "v", "w", "x", "y", "z" >>

FirstNames(n) == { NamePool[i] : i \in 1..n }

Names == FirstNames(MaxPlayers)

\* (team1_score, team2_score) pairs a caller may record
Scores == { <<11, 7>>, <<9, 11>> }

----------------------------------------------------------------------------
(* State *)

VARIABLES
    app,                    \* which league class the engine object is
    players,                \* list of names, in insertion order
    session_rounds,         \* list of round records of the current session
    current_session,
    player_stats,           \* dict name -> stats record
    session_history,        \* list of archived sessions
    player_tiers,           \* dict name -> tier
    is_seeding_session,
    player_numbers,         \* dict name -> display number
    next_player_number,
    tier_court_assignments, \* dict tier -> list of court numbers
    match_history,          \* LadderLeague: list of pairs that shared a court
    court_history,          \* LadderLeague: list of player/court records
    ret,                    \* the last call: operation and outcome
    calls                   \* how many calls the engine has served

vars ==
    << app, players, session_rounds, current_session, player_stats,
       session_history, player_tiers, is_seeding_session, player_numbers,
       next_player_number, tier_court_assignments, match_history,
       court_history, ret, calls >>

----------------------------------------------------------------------------
(* Python list and dict helpers *)

Range(s) == { s[i] : i \in DOMAIN s }

Min(a, b) == IF a < b THEN a ELSE b

Max(a, b) == IF a > b THEN a ELSE b

\* list.remove(x): drops the first occurrence
ListRemove(s, x) ==
    LET i == CHOOSE k \in DOMAIN s : s[k] = x /\ \A j \in 1..(k - 1) : s[j] # x
    IN  SubSeq(s, 1, i - 1) \o SubSeq(s, i + 1, Len(s))

\* s[a:b] with 0-based Python indices, clipped to the list
Slice(s, a, b) == SubSeq(s, a + 1, Min(b, Len(s)))

DictDel(d, k) == [ x \in (DOMAIN d) \ {k} |-> d[x] ]

DictSet(d, k, v) == [ x \in (DOMAIN d) \cup {k} |-> IF x = k THEN v ELSE d[x] ]

DictGet(d, k, default) == IF k \in DOMAIN d THEN d[k] ELSE default

\* Python's order on equal-length tuples of integers
RECURSIVE TupleLess(_, _)
TupleLess(a, b) ==
    IF a = <<>> \/ b = <<>> THEN FALSE
    ELSE IF Head(a) # Head(b) THEN Head(a) < Head(b)
    ELSE TupleLess(Tail(a), Tail(b))

\* one step of list.sort(key=...): x with key k goes behind every element
\* whose key is not greater
RECURSIVE SortedInsert(_, _, _)
SortedInsert(sorted, x, k) ==
    IF sorted = <<>> THEN << [ elem |-> x, key |-> k ] >>
    ELSE IF TupleLess(k, Head(sorted).key)
    THEN << [ elem |-> x, key |-> k ] >> \o sorted
    ELSE << Head(sorted) >> \o SortedInsert(Tail(sorted), x, k)

RECURSIVE SortPrefix(_, _, _)
SortPrefix(s, key, n) ==
    IF n = 0 THEN <<>>
    ELSE SortedInsert(SortPrefix(s, key, n - 1), s[n], key[n])

\* list.sort(key=...): stable and ascending; key[i] is the key tuple of s[i].
\* sort(reverse=True) keeps equal elements in their original order too, so
\* it is the ascending sort on the negated key.
StableSort(s, key) ==
    LET sorted == SortPrefix(s, key, Len(s))
    IN  [ r \in 1..Len(s) |-> sorted[r].elem ]

RECURSIVE Perms(_)
Perms(S) ==
    IF S = {} THEN { <<>> }
    ELSE UNION { { <<x>> \o p : p \in Perms(S \ {x}) } : x \in S }

Rotate(s, k) == SubSeq(s, k + 1, Len(s)) \o SubSeq(s, 1, k)

\* random.shuffle(s): any order of the same elements
shuffle(s) ==
    IF Len(s) <= MaxShuffle
    THEN Perms(Range(s))
    ELSE { Rotate(s, k) : k \in 0..(Len(s) - 1) }

----------------------------------------------------------------------------
(* SeededLadderLeague *)

SeededApp == "seeded_ladder_league"

RoundRobinApp == "ladder_league"

DefaultTierCourts == (1 :> <<4>>) @@ (2 :> <<3>>) @@ (3 :> <<2>>) @@ (4 :> <<1>>)

NewStats ==
    [ games_played |-> 0, total_points |-> 0, total_points_against |-> 0,
      rounds_sat_out |-> 0, last_sat_out_round |-> -2, game_scores |-> <<>> ]

\* a tier that takes in the whole roster
get_tier_players_everyone(tier) == players

get_tier_players(tier) ==
    SelectSeq(players, LAMBDA p : DictGet(player_tiers, p, 2) = tier)

active_courts(player_count) ==
    IF player_count >= 16 THEN 4
    ELSE IF player_count >= 12 THEN 3
    ELSE IF player_count >= 8 THEN 2
    ELSE 1

get_active_courts == active_courts(Len(players))

get_games_played(stats, player) ==
    IF player \in DOMAIN stats THEN stats[player].games_played ELSE 0

\* can_sit_out without the cooldown
can_sit_out_whenever(stats, player, current_round_num) ==
    (current_round_num - stats[player].last_sat_out_round) > 0

can_sit_out(stats, player, current_round_num) ==
    (current_round_num - stats[player].last_sat_out_round) > 1

\* a sit_score that prefers whoever has sat out most
sit_score_prefers_rested(stats, player, current_round_num) ==
    stats[player].rounds_sat_out * 20

sit_score(stats, player, current_round_num) ==
    get_games_played(stats, player) * 10
      - stats[player].rounds_sat_out * 20
      + (current_round_num - stats[player].last_sat_out_round)

\* select_sitting_players without the forced fill
select_sitting_players_eligible_only(stats, players_pool, num_needed, current_round_num) ==
    LET num_sitting == Len(players_pool) - num_needed
        eligible == SelectSeq(players_pool,
                        LAMBDA p : can_sit_out(stats, p, current_round_num))
        sit_scores == StableSort(eligible,
                        [ i \in DOMAIN eligible |->
                            << -sit_score(stats, eligible[i], current_round_num) >> ])
    IN  IF num_sitting <= 0 THEN <<>> ELSE Slice(sit_scores, 0, num_sitting)

\* select_sitting_players that takes the eligible players in pool order
select_sitting_players_in_pool_order(stats, players_pool, num_needed, current_round_num) ==
    LET num_sitting == Len(players_pool) - num_needed
        eligible == SelectSeq(players_pool,
                        LAMBDA p : can_sit_out(stats, p, current_round_num))
        sitting_players == Slice(eligible, 0, num_sitting)
        remaining == SelectSeq(players_pool,
                        LAMBDA p : p \notin Range(sitting_players))
        by_games == StableSort(remaining,
                        [ i \in DOMAIN remaining |->
                            << -get_games_played(stats, remaining[i]) >> ])
    IN  IF num_sitting <= 0 THEN <<>>
        ELSE IF Len(sitting_players) < num_sitting
        THEN sitting_players
               \o Slice(by_games, 0, num_sitting - Len(sitting_players))
        ELSE sitting_players

select_sitting_players(stats, players_pool, num_needed, current_round_num) ==
    LET num_sitting == Len(players_pool) - num_needed
        eligible == SelectSeq(players_pool,
                        LAMBDA p : can_sit_out(stats, p, current_round_num))
        sit_scores == StableSort(eligible,
                        [ i \in DOMAIN eligible |->
                            << -sit_score(stats, eligible[i], current_round_num) >> ])
        sitting_players == Slice(sit_scores, 0, num_sitting)
        remaining == SelectSeq(players_pool,
                        LAMBDA p : p \notin Range(sitting_players))
        by_games == StableSort(remaining,
                        [ i \in DOMAIN remaining |->
                            << -get_games_played(stats, remaining[i]) >> ])
    IN  IF num_sitting <= 0 THEN <<>>
        ELSE IF Len(sitting_players) < num_sitting
        THEN sitting_players
               \o Slice(by_games, 0, num_sitting - Len(sitting_players))
        ELSE sitting_players

\* a court whose first player faces the other three
create_court_data_one_against_three(court_num, ps) ==
    [ court |-> court_num, players |-> ps,
      team1 |-> Slice(ps, 0, 1), team2 |-> Slice(ps, 1, Len(ps)),
      team1_score |-> 0, team2_score |-> 0, completed |-> FALSE ]

create_court_data(court_num, ps) ==
    [ court |-> court_num, players |-> ps,
      team1 |-> Slice(ps, 0, 2), team2 |-> Slice(ps, 2, Len(ps)),
      team1_score |-> 0, team2_score |-> 0, completed |-> FALSE ]

\* _finalize_round without its sit-out bookkeeping
mark_sitting_skipped(stats, sitting_players, current_round_num) == stats

\* a bookkeeping loop that counts the sit-out but keeps the old round number
RECURSIVE mark_sitting_keeps_round(_, _, _)
mark_sitting_keeps_round(stats, sitting_players, current_round_num) ==
    IF sitting_players = <<>> THEN stats
    ELSE LET p == Head(sitting_players)
         IN  mark_sitting_keeps_round(
                [ stats EXCEPT ![p].rounds_sat_out = @ + 1 ],
                Tail(sitting_players), current_round_num)

\* the sit-out bookkeeping loop of _finalize_round
RECURSIVE mark_sitting(_, _, _)
mark_sitting(stats, sitting_players, current_round_num) ==
    IF sitting_players = <<>> THEN stats
    ELSE LET p == Head(sitting_players)
         IN  mark_sitting(
                [ stats EXCEPT ![p].rounds_sat_out = @ + 1,
                               ![p].last_sat_out_round = current_round_num ],
                Tail(sitting_players), current_round_num)

round_data(current_round_num, courts, sitting_players) ==
    [ round_number |-> current_round_num, courts |-> courts,
      sitting_players |-> sitting_players ]

\* the assignments every generate_round makes through _finalize_round
finalize_round(current_round_num, courts, sitting_players) ==
    /\ player_stats' = mark_sitting(player_stats, sitting_players, current_round_num)
    /\ session_rounds' =
         Append(session_rounds, round_data(current_round_num, courts, sitting_players))
    /\ ret' = [ op |-> "generate_round", result |-> "Round" ]


RECURSIVE Flatten(_)
Flatten(ss) == IF ss = <<>> THEN <<>> ELSE Head(ss) \o Flatten(Tail(ss))

\* an add_player that puts the whole roster back into tier 4
add_player_levels_tiers(name) ==
    /\ app = SeededApp
    /\ IF name # "" /\ name \notin Range(players)
       THEN /\ next_player_number <= MaxNumber
            /\ players' = Append(players, name)
            /\ player_stats' = DictSet(player_stats, name, NewStats)
            /\ player_tiers' = [ p \in (DOMAIN player_tiers) \cup {name} |-> 4 ]
            /\ player_numbers' = DictSet(player_numbers, name, next_player_number)
            /\ next_player_number' = next_player_number + 1
            /\ ret' = [ op |-> "add_player", name |-> name, result |-> "True" ]
       ELSE /\ ret' = [ op |-> "add_player", name |-> name, result |-> "False" ]
            /\ UNCHANGED << players, player_stats, player_tiers, player_numbers,
                            next_player_number >>
    /\ UNCHANGED << match_history, court_history, app, session_rounds, current_session, session_history,
                    is_seeding_session, tier_court_assignments >>

add_player(name) ==
    /\ app = SeededApp
    /\ IF name # "" /\ name \notin Range(players)
       THEN /\ next_player_number <= MaxNumber
            /\ players' = Append(players, name)
            /\ player_stats' = DictSet(player_stats, name, NewStats)
            /\ player_tiers' = DictSet(player_tiers, name, 4)
            /\ player_numbers' = DictSet(player_numbers, name, next_player_number)
            /\ next_player_number' = next_player_number + 1
            /\ ret' = [ op |-> "add_player", name |-> name, result |-> "True" ]
       ELSE /\ ret' = [ op |-> "add_player", name |-> name, result |-> "False" ]
            /\ UNCHANGED << players, player_stats, player_tiers, player_numbers,
                            next_player_number >>
    /\ UNCHANGED << match_history, court_history, app, session_rounds, current_session, session_history,
                    is_seeding_session, tier_court_assignments >>

\* a remove_player that hands the last display number out again
remove_player_frees_number(name) ==
    /\ app = SeededApp
    /\ IF name \in Range(players)
       THEN /\ players' = ListRemove(players, name)
            /\ player_stats' = DictDel(player_stats, name)
            /\ player_tiers' = DictDel(player_tiers, name)
            /\ player_numbers' = DictDel(player_numbers, name)
            /\ next_player_number' = next_player_number - 1
            /\ ret' = [ op |-> "remove_player", name |-> name, result |-> "True" ]
       ELSE /\ ret' = [ op |-> "remove_player", result |-> "False" ]
            /\ UNCHANGED << players, player_stats, player_tiers, player_numbers,
                            next_player_number >>
    /\ UNCHANGED << match_history, court_history, app, session_rounds, current_session, session_history,
                    is_seeding_session, tier_court_assignments >>

remove_player(name) ==
    /\ app = SeededApp
    /\ IF name \in Range(players)
       THEN /\ players' = ListRemove(players, name)
            /\ player_stats' = DictDel(player_stats, name)
            /\ player_tiers' = DictDel(player_tiers, name)
            /\ player_numbers' = DictDel(player_numbers, name)
            /\ ret' = [ op |-> "remove_player", name |-> name, result |-> "True" ]
       ELSE /\ ret' = [ op |-> "remove_player", result |-> "False" ]
            /\ UNCHANGED << players, player_stats, player_tiers, player_numbers >>
    /\ UNCHANGED << match_history, court_history, app, session_rounds, current_session, session_history,
                    is_seeding_session, next_player_number,
                    tier_court_assignments >>

\* courts 1..num_courts, four consecutive players of the shuffled list each
seeding_courts(num_courts, playing_players) ==
    LET filled == SelectSeq([ c \in 1..num_courts |-> c ],
                    LAMBDA c : Len(Slice(playing_players, (c - 1) * 4, (c - 1) * 4 + 4)) = 4)
    IN  [ i \in 1..Len(filled) |->
            create_court_data(filled[i],
                Slice(playing_players, (filled[i] - 1) * 4, (filled[i] - 1) * 4 + 4)) ]

generate_seeding_round(current_round_num) ==
    LET num_courts == get_active_courts
        players_needed == num_courts * 4
        sitting_players == select_sitting_players(player_stats, players,
                                players_needed, current_round_num)
        playing_players == SelectSeq(players, LAMBDA p : p \notin Range(sitting_players))
    IN  IF Len(players) < players_needed
        THEN /\ ret' = [ op |-> "generate_round", result |-> "Error" ]
             /\ UNCHANGED << player_stats, session_rounds >>
        ELSE \E shuffled \in shuffle(playing_players) :
                finalize_round(current_round_num,
                    seeding_courts(num_courts, shuffled), sitting_players)

\* one iteration of the tier loop of _generate_tiered_round, up to the shuffle
tier_plan(tier_num, current_round_num) ==
    LET total_courts == get_active_courts
        tier_players == get_tier_players(tier_num)
        assigned_courts == DictGet(tier_court_assignments, tier_num, <<>>)
        active_assigned_courts == SelectSeq(assigned_courts, LAMBDA c : c <= total_courts)
        max_courts_possible == Len(tier_players) \div 4
        courts_to_use == Min(Len(active_assigned_courts), max_courts_possible)
        players_needed == courts_to_use * 4
        sitting == select_sitting_players(player_stats, tier_players,
                        players_needed, current_round_num)
    IN  [ everyone_sits |-> \/ Len(tier_players) < 4
                            \/ active_assigned_courts = <<>>
                            \/ courts_to_use = 0,
          tier_players |-> tier_players,
          courts_for_tier |-> Slice(active_assigned_courts, 0, courts_to_use),
          players_needed |-> players_needed,
          sitting |-> sitting,
          playing |-> SelectSeq(tier_players, LAMBDA p : p \notin Range(sitting)) ]

\* the courts one tier adds, given the shuffled playing list
tier_courts(plan, playing) ==
    LET idx == SelectSeq([ i \in 1..Len(plan.courts_for_tier) |-> i ],
                    LAMBDA i : Len(Slice(playing, (i - 1) * 4, (i - 1) * 4 + 4)) = 4)
    IN  IF plan.everyone_sits THEN <<>>
        ELSE [ k \in 1..Len(idx) |->
                 create_court_data(plan.courts_for_tier[idx[k]],
                     Slice(playing, (idx[k] - 1) * 4, (idx[k] - 1) * 4 + 4)) ]

\* tier_sitting without the players chosen to sit out
tier_sitting_forgets_sitting(plan, playing) ==
    IF plan.everyone_sits THEN plan.tier_players ELSE <<>>

\* what one tier appends to all_sitting
tier_sitting(plan, playing) ==
    LET short == SelectSeq([ i \in 1..Len(plan.courts_for_tier) |-> i ],
                    LAMBDA i : Len(Slice(playing, (i - 1) * 4, (i - 1) * 4 + 4)) # 4)
        leftovers == Flatten([ k \in 1..Len(short) |->
                        Slice(playing, (short[k] - 1) * 4, (short[k] - 1) * 4 + 4) ])
        extras == IF Len(playing) > plan.players_needed
                  THEN Slice(playing, plan.players_needed, Len(playing))
                  ELSE <<>>
    IN  IF plan.everyone_sits THEN plan.tier_players
        ELSE leftovers \o plan.sitting \o extras

generate_tiered_round(current_round_num) ==
    LET plan1 == tier_plan(1, current_round_num)
        plan2 == tier_plan(2, current_round_num)
        plan3 == tier_plan(3, current_round_num)
        plan4 == tier_plan(4, current_round_num)
    IN  \E s1 \in shuffle(plan1.playing), s2 \in shuffle(plan2.playing),
           s3 \in shuffle(plan3.playing), s4 \in shuffle(plan4.playing) :
            finalize_round(current_round_num,
                tier_courts(plan1, s1) \o tier_courts(plan2, s2)
                    \o tier_courts(plan3, s3) \o tier_courts(plan4, s4),
                tier_sitting(plan1, s1) \o tier_sitting(plan2, s2)
                    \o tier_sitting(plan3, s3) \o tier_sitting(plan4, s4))

\* generate_round called while the session has fewer than `rounds` rounds
generate_round_within(rounds) ==
    /\ app = SeededApp
    /\ Len(session_rounds) < rounds
    /\ IF is_seeding_session
       THEN generate_seeding_round(Len(session_rounds) + 1)
       ELSE generate_tiered_round(Len(session_rounds) + 1)
    /\ UNCHANGED << match_history, court_history, app, players, current_session, session_history, player_tiers,
                    is_seeding_session, player_numbers, next_player_number,
                    tier_court_assignments >>

generate_round == generate_round_within(MaxRounds)


\* index of the match record_game_score settles on, 0 when there is none
find_court(courts, court_num, team1, team2) ==
    LET hit(c) ==
            /\ c.court = court_num
            /\ IF team1 # <<>> /\ team2 # <<>>
               THEN Range(c.team1) = Range(team1) /\ Range(c.team2) = Range(team2)
               ELSE ~c.completed
        hits == { i \in DOMAIN courts : hit(courts[i]) }
    IN  IF hits = {} THEN 0 ELSE CHOOSE i \in hits : \A j \in hits : i <= j

\* _update_stats_for_team over a list of players; stops at the first player
\* without a stats entry (KeyError)
RECURSIVE update_stats_for_team(_, _, _, _)
update_stats_for_team(acc, team, points_for, points_against) ==
    IF acc.raised \/ team = <<>> THEN acc
    ELSE LET player == Head(team)
         IN  IF player \notin DOMAIN acc.stats
             THEN [ stats |-> acc.stats, raised |-> TRUE ]
             ELSE update_stats_for_team(
                    [ stats |-> [ acc.stats EXCEPT
                                    ![player].games_played = @ + 1,
                                    ![player].total_points = @ + points_for,
                                    ![player].total_points_against = @ + points_against ],
                      raised |-> FALSE ],
                    Tail(team), points_for, points_against)

\* record_game_score called while the players of the match have played fewer
\* than `games` games
record_game_score_within(games, round_num, court_num, team1_score, team2_score, team1, team2) ==
    LET failed == /\ ret' = [ op |-> "record_game_score", result |-> "False" ]
                  /\ UNCHANGED << session_rounds, player_stats >>
    IN
    /\ app = SeededApp
    /\ IF round_num < 1 \/ round_num > Len(session_rounds)
       THEN failed
       ELSE LET courts == session_rounds[round_num].courts
                i == find_court(courts, court_num, team1, team2)
            IN  IF i = 0
                THEN failed
                ELSE LET court == courts[i]
                         after1 == update_stats_for_team(
                                      [ stats |-> player_stats, raised |-> FALSE ],
                                      court.team1, team1_score, team2_score)
                         after2 == update_stats_for_team(after1,
                                      court.team2, team2_score, team1_score)
                     IN  /\ \A p \in Range(court.players) :
                                get_games_played(player_stats, p) < games
                         /\ session_rounds' =
                              [ session_rounds EXCEPT ![round_num].courts[i] =
                                  [ @ EXCEPT !.team1_score = team1_score,
                                             !.team2_score = team2_score,
                                             !.completed = TRUE ] ]
                         /\ player_stats' = after2.stats
                         /\ ret' = [ op |-> "record_game_score",
                                     result |-> IF after2.raised THEN "KeyError"
                                                ELSE "True",
                                     round_num |-> round_num, index |-> i ]
    /\ UNCHANGED << match_history, court_history, app, players, current_session, session_history, player_tiers,
                    is_seeding_session, player_numbers, next_player_number,
                    tier_court_assignments >>

record_game_score(round_num, court_num, team1_score, team2_score, team1, team2) ==
    record_game_score_within(MaxGames, round_num, court_num, team1_score,
                             team2_score, team1, team2)

ranking_entry(stats, tiers, player) ==
    [ player |-> player,
      games_played |-> stats[player].games_played,
      counted_games |-> stats[player].games_played,
      points |-> stats[player].total_points,
      points_against |-> stats[player].total_points_against,
      differential |-> stats[player].total_points - stats[player].total_points_against,
      tier |-> DictGet(tiers, player, 4) ]

\* a sort key that puts points before the tier
ranking_key_points_first(x) == << -x.points, x.tier, -x.differential >>

\* the sort key of get_rankings
ranking_key(x) == << x.tier, -x.points, -x.differential >>

get_rankings(roster, stats, tiers) ==
    LET rankings == [ i \in 1..Len(roster) |-> ranking_entry(stats, tiers, roster[i]) ]
    IN  StableSort(rankings, [ i \in DOMAIN rankings |-> ranking_key(rankings[i]) ])

\* seeded_tier with tiers of a quarter of the roster, however small
seeded_tier_by_quarters(idx, total_players) ==
    LET players_per_tier == total_players \div 4
    IN  IF idx <= players_per_tier THEN 1
        ELSE IF idx <= 2 * players_per_tier THEN 2
        ELSE IF idx <= 3 * players_per_tier THEN 3
        ELSE 4

\* tier of the idx-th ranked player (1-based) among total_players
seeded_tier(idx, total_players) ==
    LET players_per_tier == Max(4, total_players \div 4)
        tier1_count == Min(players_per_tier, total_players)
        tier2_count == Min(players_per_tier, Max(0, total_players - tier1_count))
        tier3_count == Min(players_per_tier,
                           Max(0, total_players - tier1_count - tier2_count))
    IN  IF idx <= tier1_count THEN 1
        ELSE IF idx <= tier1_count + tier2_count THEN 2
        ELSE IF idx <= tier1_count + tier2_count + tier3_count THEN 3
        ELSE 4

\* the tiers perform_seeding assigns and the four tier lists it returns
seed_assignments(roster, stats, tiers) ==
    LET rankings == get_rankings(roster, stats, tiers)
        total_players == Len(rankings)
        tier_assignments ==
            [ p \in { rankings[i].player : i \in 1..total_players } |->
                seeded_tier(CHOOSE i \in 1..total_players : rankings[i].player = p,
                            total_players) ]
        ranked == [ i \in 1..total_players |-> rankings[i].player ]
    IN  [ player_tiers |->
            [ p \in (DOMAIN tiers) \cup (DOMAIN tier_assignments) |->
                IF p \in DOMAIN tier_assignments THEN tier_assignments[p] ELSE tiers[p] ],
          seeded |-> [ t \in 1..4 |->
                        SelectSeq(ranked, LAMBDA p : tier_assignments[p] = t) ] ]

\* a seeding that leaves the league in its seeding session
perform_seeding_stays_seeding(roster, stats, tiers) ==
    LET assigned == seed_assignments(roster, stats, tiers)
    IN  [ player_tiers |-> assigned.player_tiers, seeded |-> assigned.seeded,
          is_seeding_session |-> TRUE ]

\* perform_seeding: the new player_tiers, the end of the seeding session and
\* the four returned tier lists
perform_seeding(roster, stats, tiers) ==
    LET assigned == seed_assignments(roster, stats, tiers)
    IN  [ player_tiers |-> assigned.player_tiers, seeded |-> assigned.seeded,
          is_seeding_session |-> FALSE ]

LastN(s, n) == SubSeq(s, Max(1, Len(s) - n + 1), Len(s))

\* boundary_moves that swaps whatever the size of the two tiers
boundary_moves_any_size(upper_rankings, lower_rankings, upper, lower) ==
    LET num_swap == 2
        down == LastN(upper_rankings, num_swap)
        up == Slice(lower_rankings, 0, num_swap)
    IN  [ i \in 1..Len(down) |->
            [ player |-> down[i].player, from |-> upper, to |-> lower ] ]
        \o [ i \in 1..Len(up) |->
            [ player |-> up[i].player, from |-> lower, to |-> upper ] ]

\* the swaps of one boundary, in the order the code applies them
boundary_moves(upper_rankings, lower_rankings, upper, lower) ==
    LET num_swap == 2
        down == LastN(upper_rankings, num_swap)
        up == Slice(lower_rankings, 0, num_swap)
    IN  IF Len(upper_rankings) >= 4 /\ Len(lower_rankings) >= 4
        THEN [ i \in 1..Len(down) |->
                 [ player |-> down[i].player, from |-> upper, to |-> lower ] ]
             \o [ i \in 1..Len(up) |->
                 [ player |-> up[i].player, from |-> lower, to |-> upper ] ]
        ELSE <<>>

RECURSIVE apply_moves(_, _)
apply_moves(tiers, moves) ==
    IF moves = <<>> THEN tiers
    ELSE apply_moves(DictSet(tiers, Head(moves).player, Head(moves).to), Tail(moves))

\* perform_promotion_relegation that ranks each boundary's tiers after the
\* swaps of the boundary above
perform_promotion_relegation_cascaded(roster, stats, tiers) ==
    LET tier_rankings(ts, t) ==
            SelectSeq(get_rankings(roster, stats, ts), LAMBDA r : r.tier = t)
        moves12 == boundary_moves(tier_rankings(tiers, 1), tier_rankings(tiers, 2), 1, 2)
        tiers12 == apply_moves(tiers, moves12)
        moves23 == boundary_moves(tier_rankings(tiers12, 2), tier_rankings(tiers12, 3), 2, 3)
        tiers23 == apply_moves(tiers12, moves23)
        moves34 == boundary_moves(tier_rankings(tiers23, 3), tier_rankings(tiers23, 4), 3, 4)
        moves == moves12 \o moves23 \o moves34
        triple(m) == << m.player, m.from, m.to >>
        promoted_moves == SelectSeq(moves, LAMBDA m : m.to < m.from)
        relegated_moves == SelectSeq(moves, LAMBDA m : m.to > m.from)
    IN  [ player_tiers |-> apply_moves(tiers23, moves34),
          promoted |-> [ i \in 1..Len(promoted_moves) |-> triple(promoted_moves[i]) ],
          relegated |-> [ i \in 1..Len(relegated_moves) |-> triple(relegated_moves[i]) ] ]

\* perform_promotion_relegation: the new player_tiers, promoted and relegated
perform_promotion_relegation(roster, stats, tiers) ==
    LET rankings == get_rankings(roster, stats, tiers)
        tier_rankings(t) == SelectSeq(rankings, LAMBDA r : r.tier = t)
        moves == boundary_moves(tier_rankings(1), tier_rankings(2), 1, 2)
                   \o boundary_moves(tier_rankings(2), tier_rankings(3), 2, 3)
                   \o boundary_moves(tier_rankings(3), tier_rankings(4), 3, 4)
        triple(m) == << m.player, m.from, m.to >>
        promoted_moves == SelectSeq(moves, LAMBDA m : m.to < m.from)
        relegated_moves == SelectSeq(moves, LAMBDA m : m.to > m.from)
    IN  [ player_tiers |-> apply_moves(tiers, moves),
          promoted |-> [ i \in 1..Len(promoted_moves) |-> triple(promoted_moves[i]) ],
          relegated |-> [ i \in 1..Len(relegated_moves) |-> triple(relegated_moves[i]) ] ]

\* a history that forgets its entries when a session without rounds ends
archive_unless_empty(history, rounds, session_data) ==
    IF rounds # <<>> THEN Append(history, session_data) ELSE <<>>

\* the session is archived only when it has rounds
archive(history, rounds, session_data) ==
    IF rounds # <<>> THEN Append(history, session_data) ELSE history

\* statistics that survive the end of the session
fresh_stats_kept(stats, roster) ==
    [ p \in (DOMAIN stats) \cup Range(roster) |->
        IF p \in DOMAIN stats THEN stats[p] ELSE NewStats ]

\* every player of the roster starts the next session with fresh statistics
fresh_stats(stats, roster) ==
    [ p \in (DOMAIN stats) \cup Range(roster) |->
        IF p \in Range(roster) THEN NewStats ELSE stats[p] ]

new_session ==
    LET rankings == get_rankings(players, player_stats, player_tiers)
        seeding == perform_seeding(players, player_stats, player_tiers)
        swaps == perform_promotion_relegation(players, player_stats, player_tiers)
        promoted == IF is_seeding_session THEN <<>> ELSE swaps.promoted
        relegated == IF is_seeding_session THEN <<>> ELSE swaps.relegated
        seeded(t) == IF is_seeding_session THEN seeding.seeded[t] ELSE <<>>
        session_data ==
            [ session_number |-> current_session,
              rounds |-> session_rounds,
              rankings |-> rankings,
              player_count |-> Len(players),
              is_seeding |-> is_seeding_session',
              promoted |-> promoted,
              relegated |-> relegated,
              seeded_tier1 |-> seeded(1), seeded_tier2 |-> seeded(2),
              seeded_tier3 |-> seeded(3), seeded_tier4 |-> seeded(4) ]
    IN
    /\ app = SeededApp
    /\ current_session < MaxSessions
    /\ player_tiers' = IF is_seeding_session THEN seeding.player_tiers
                       ELSE swaps.player_tiers
    /\ is_seeding_session' = IF is_seeding_session THEN seeding.is_seeding_session
                              ELSE is_seeding_session
    /\ session_history' = archive(session_history, session_rounds, session_data)
    /\ session_rounds' = <<>>
    /\ current_session' = current_session + 1
    /\ player_stats' = fresh_stats(player_stats, players)
    /\ ret' = [ op |-> "new_session", result |-> "None",
                promoted |-> promoted, relegated |-> relegated ]
    /\ UNCHANGED << match_history, court_history, app, players, player_numbers, next_player_number,
                    tier_court_assignments >>

\* reset_all: everything but the roster starts over, every player in tier 2
reset_all ==
    /\ app = SeededApp
    /\ session_rounds' = <<>>
    /\ current_session' = 1
    /\ session_history' = <<>>
    /\ is_seeding_session' = TRUE
    /\ player_stats' = [ p \in (DOMAIN player_stats) \cup Range(players) |->
                           IF p \in Range(players) THEN NewStats ELSE player_stats[p] ]
    /\ player_tiers' = [ p \in Range(players) |-> 2 ]
    /\ ret' = [ op |-> "reset_all", result |-> "None" ]
    /\ UNCHANGED << match_history, court_history, app, players, player_numbers, next_player_number,
                    tier_court_assignments >>


\* clear_current_session: the rounds go and the roster's statistics start over
clear_current_session ==
    /\ app = SeededApp
    /\ session_rounds' = <<>>
    /\ player_stats' = [ p \in (DOMAIN player_stats) \cup Range(players) |->
                           IF p \in Range(players) THEN NewStats ELSE player_stats[p] ]
    /\ ret' = [ op |-> "clear_current_session", result |-> "None" ]
    /\ UNCHANGED << match_history, court_history, app, players, current_session,
                    session_history, player_tiers, is_seeding_session,
                    player_numbers, next_player_number, tier_court_assignments >>

\* a clear_all_data that keeps the display numbers handed out
clear_all_data_keeps_numbers ==
    /\ app = SeededApp
    /\ players' = <<>>
    /\ session_rounds' = <<>>
    /\ current_session' = 1
    /\ player_stats' = << >>
    /\ session_history' = <<>>
    /\ player_tiers' = << >>
    /\ is_seeding_session' = TRUE
    /\ ret' = [ op |-> "clear_all_data", result |-> "None" ]
    /\ UNCHANGED << match_history, court_history, app, player_numbers,
                    next_player_number, tier_court_assignments >>

\* clear_all_data: the league is as constructed, but for its court setup
clear_all_data ==
    /\ app = SeededApp
    /\ players' = <<>>
    /\ session_rounds' = <<>>
    /\ current_session' = 1
    /\ player_stats' = << >>
    /\ session_history' = <<>>
    /\ player_tiers' = << >>
    /\ is_seeding_session' = TRUE
    /\ player_numbers' = << >>
    /\ next_player_number' = 1
    /\ ret' = [ op |-> "clear_all_data", result |-> "None" ]
    /\ UNCHANGED << match_history, court_history, app, tier_court_assignments >>

----------------------------------------------------------------------------
(* RoundRobinLeague *)

RR_NewStats ==
    [ games_played |-> 0, wins |-> 0, losses |-> 0, total_points |-> 0,
      total_points_against |-> 0, rounds_sat_out |-> 0,
      last_sat_out_round |-> -2, game_scores |-> <<>> ]

\* an add_player that puts the new name at the head of the roster
RR_add_player_in_front(name) ==
    /\ app = RoundRobinApp
    /\ IF name # "" /\ name \notin Range(players)
       THEN /\ next_player_number <= MaxNumber
            /\ players' = <<name>> \o players
            /\ player_stats' = DictSet(player_stats, name, RR_NewStats)
            /\ player_numbers' = DictSet(player_numbers, name, next_player_number)
            /\ next_player_number' = next_player_number + 1
            /\ ret' = [ op |-> "add_player", name |-> name, result |-> "True" ]
       ELSE /\ ret' = [ op |-> "add_player", name |-> name, result |-> "False" ]
            /\ UNCHANGED << players, player_stats, player_numbers, next_player_number >>
    /\ UNCHANGED << match_history, court_history, app, session_rounds, current_session, session_history,
                    player_tiers, is_seeding_session, tier_court_assignments >>

RR_add_player(name) ==
    /\ app = RoundRobinApp
    /\ IF name # "" /\ name \notin Range(players)
       THEN /\ next_player_number <= MaxNumber
            /\ players' = Append(players, name)
            /\ player_stats' = DictSet(player_stats, name, RR_NewStats)
            /\ player_numbers' = DictSet(player_numbers, name, next_player_number)
            /\ next_player_number' = next_player_number + 1
            /\ ret' = [ op |-> "add_player", name |-> name, result |-> "True" ]
       ELSE /\ ret' = [ op |-> "add_player", name |-> name, result |-> "False" ]
            /\ UNCHANGED << players, player_stats, player_numbers, next_player_number >>
    /\ UNCHANGED << match_history, court_history, app, session_rounds, current_session, session_history,
                    player_tiers, is_seeding_session, tier_court_assignments >>

RR_remove_player(name) ==
    /\ app = RoundRobinApp
    /\ IF name \in Range(players)
       THEN /\ players' = ListRemove(players, name)
            /\ player_stats' = DictDel(player_stats, name)
            /\ player_numbers' = DictDel(player_numbers, name)
            /\ ret' = [ op |-> "remove_player", name |-> name, result |-> "True" ]
       ELSE /\ ret' = [ op |-> "remove_player", result |-> "False" ]
            /\ UNCHANGED << players, player_stats, player_numbers >>
    /\ UNCHANGED << match_history, court_history, app, session_rounds, current_session, session_history,
                    player_tiers, is_seeding_session, next_player_number,
                    tier_court_assignments >>

\* every list select_sitting_players can return: the forced fill is drawn
\* from a shuffle of the players not yet chosen
RR_select_sitting_players(stats, roster, current_round_num) ==
    LET num_courts == active_courts(Len(roster))
        players_per_round == num_courts * 4
        num_sitting == Len(roster) - players_per_round
        eligible == SelectSeq(roster,
                        LAMBDA p : can_sit_out(stats, p, current_round_num))
        sit_scores == StableSort(eligible,
                        [ i \in DOMAIN eligible |->
                            << -sit_score(stats, eligible[i], current_round_num) >> ])
        sitting_players == Slice(sit_scores, 0, num_sitting)
        remaining == SelectSeq(roster, LAMBDA p : p \notin Range(sitting_players))
    IN  IF num_sitting <= 0 THEN { <<>> }
        ELSE IF Len(sitting_players) < num_sitting
        THEN { sitting_players \o Slice(sh, 0, num_sitting - Len(sitting_players)) :
                 sh \in shuffle(remaining) }
        ELSE { sitting_players }

RR_generate_round ==
    LET num_courts == get_active_courts
        current_round_num == Len(session_rounds) + 1
    IN
    /\ app = RoundRobinApp
    /\ Len(session_rounds) < MaxRounds
    /\ IF Len(players) < num_courts * 4
       THEN /\ ret' = [ op |-> "generate_round", result |-> "Error" ]
            /\ UNCHANGED << player_stats, session_rounds >>
       ELSE \E sitting_players \in
                    RR_select_sitting_players(player_stats, players, current_round_num) :
              \E shuffled \in shuffle(SelectSeq(players,
                                  LAMBDA p : p \notin Range(sitting_players))) :
                /\ player_stats' =
                     mark_sitting(player_stats, sitting_players, current_round_num)
                /\ session_rounds' = Append(session_rounds,
                     round_data(current_round_num,
                                seeding_courts(num_courts, shuffled), sitting_players))
                /\ ret' = [ op |-> "generate_round", result |-> "Round" ]
    /\ UNCHANGED << match_history, court_history, app, players, current_session, session_history, player_tiers,
                    is_seeding_session, player_numbers, next_player_number,
                    tier_court_assignments >>

\* the per-player statistics loop of record_game_score for one side; stops
\* at the first player without a stats entry (KeyError)
RECURSIVE RR_update_side(_, _, _, _, _, _)
RR_update_side(acc, team, won, points_for, points_against, round_num) ==
    IF acc.raised \/ team = <<>> THEN acc
    ELSE LET player == Head(team)
         IN  IF player \notin DOMAIN acc.stats
             THEN [ stats |-> acc.stats, raised |-> TRUE ]
             ELSE RR_update_side(
                    [ stats |-> [ acc.stats EXCEPT
                        ![player].games_played = @ + 1,
                        ![player].wins = @ + (IF won THEN 1 ELSE 0),
                        ![player].losses = @ + (IF won THEN 0 ELSE 1),
                        ![player].total_points = @ + points_for,
                        ![player].total_points_against = @ + points_against,
                        ![player].game_scores = Append(@,
                            [ round |-> round_num, points_for |-> points_for,
                              points_against |-> points_against ]) ],
                      raised |-> FALSE ],
                    Tail(team), won, points_for, points_against, round_num)

\* the first match of the round on that court number, 0 when there is none
RR_find_court(courts, court_num) ==
    LET hits == { i \in DOMAIN courts : courts[i].court = court_num }
    IN  IF hits = {} THEN 0 ELSE CHOOSE i \in hits : \A j \in hits : i <= j

RR_record_game_score(round_num, court_num, team1_score, team2_score) ==
    LET failed == /\ ret' = [ op |-> "record_game_score", result |-> "False" ]
                  /\ UNCHANGED << session_rounds, player_stats >>
    IN
    /\ app = RoundRobinApp
    /\ IF round_num < 1 \/ round_num > Len(session_rounds)
       THEN failed
       ELSE LET courts == session_rounds[round_num].courts
                i == RR_find_court(courts, court_num)
            IN  IF i = 0 \/ courts[i].completed
                THEN failed
                ELSE LET court == courts[i]
                         team1_won == team1_score > team2_score
                         after1 == RR_update_side(
                                      [ stats |-> player_stats, raised |-> FALSE ],
                                      court.team1, team1_won,
                                      team1_score, team2_score, round_num)
                         after2 == RR_update_side(after1, court.team2, ~team1_won,
                                      team2_score, team1_score, round_num)
                     IN  /\ session_rounds' =
                              [ session_rounds EXCEPT ![round_num].courts[i] =
                                  [ @ EXCEPT !.team1_score = team1_score,
                                             !.team2_score = team2_score,
                                             !.completed = TRUE ] ]
                         /\ player_stats' = after2.stats
                         /\ ret' = [ op |-> "record_game_score",
                                     result |-> IF after2.raised THEN "KeyError"
                                                ELSE "True",
                                     round_num |-> round_num, index |-> i ]
    /\ UNCHANGED << match_history, court_history, app, players, current_session, session_history, player_tiers,
                    is_seeding_session, player_numbers, next_player_number,
                    tier_court_assignments >>

----------------------------------------------------------------------------
(* MixedDoublesLeague (mixed_doubles_league.py): the roster `players` holds *)
(* team records, and player_stats, player_numbers and next_player_number   *)
(* stand for team_stats, team_numbers and next_team_number.                *)

MixedDoublesApp == "mixed_doubles_league"

TeamNames ==
    << "a & b", "c & d", "e & f", "g & h", "i & j", "k & l", "m & n",
       "o & p", "q & r", "s & t", "u & v", "w & x", "y & z" >>

\* the team add_team(player1, player2) makes of the i-th pair of names
Team(i) ==
    [ name |-> TeamNames[i], player1 |-> NamePool[2 * i - 1],
      player2 |-> NamePool[2 * i] ]

FirstTeams(n) == [ i \in 1..n |-> Team(i) ]

MD_NewStats ==
    [ games_played |-> 0, wins |-> 0, losses |-> 0, total_points |-> 0,
      total_points_against |-> 0, rounds_sat_out |-> 0,
      last_sat_out_round |-> -2, game_scores |-> <<>> ]

\* get_active_courts with the thresholds of the solo leagues
MD_active_courts_of_players(team_count) ==
    IF team_count >= 16 THEN 4
    ELSE IF team_count >= 12 THEN 3
    ELSE IF team_count >= 8 THEN 2
    ELSE 1

MD_active_courts(team_count) ==
    IF team_count >= 8 THEN 4
    ELSE IF team_count >= 6 THEN 3
    ELSE IF team_count >= 4 THEN 2
    ELSE 1

MD_can_sit_out(stats, team_name, current_round_num) ==
    (current_round_num - stats[team_name].last_sat_out_round) > 1

MD_sit_score(stats, team_name, current_round_num) ==
    stats[team_name].games_played * 10
      - stats[team_name].rounds_sat_out * 20
      + (current_round_num - stats[team_name].last_sat_out_round)

\* every list of team names select_sitting_teams can return
MD_select_sitting_teams(stats, teams, current_round_num) ==
    LET num_courts == MD_active_courts(Len(teams))
        teams_per_round == num_courts * 2
        num_sitting == Len(teams) - teams_per_round
        names == [ i \in DOMAIN teams |-> teams[i].name ]
        eligible == SelectSeq(names,
                        LAMBDA t : MD_can_sit_out(stats, t, current_round_num))
        sit_scores == StableSort(eligible,
                        [ i \in DOMAIN eligible |->
                            << -MD_sit_score(stats, eligible[i], current_round_num) >> ])
        sitting_teams == Slice(sit_scores, 0, num_sitting)
        remaining == SelectSeq(names, LAMBDA t : t \notin Range(sitting_teams))
    IN  IF num_sitting <= 0 THEN { <<>> }
        ELSE IF Len(sitting_teams) < num_sitting
        THEN { sitting_teams \o Slice(sh, 0, num_sitting - Len(sitting_teams)) :
                 sh \in shuffle(remaining) }
        ELSE { sitting_teams }

\* courts 1..num_courts, two consecutive teams of the shuffled list each
MD_courts(num_courts, playing_teams) ==
    LET filled == SelectSeq([ c \in 1..num_courts |-> c ],
                    LAMBDA c : Len(Slice(playing_teams, (c - 1) * 2, (c - 1) * 2 + 2)) = 2)
    IN  [ i \in 1..Len(filled) |->
            [ court |-> filled[i],
              team1 |-> playing_teams[(filled[i] - 1) * 2 + 1],
              team2 |-> playing_teams[(filled[i] - 1) * 2 + 2],
              team1_score |-> 0, team2_score |-> 0, completed |-> FALSE ] ]

MD_generate_round ==
    LET num_courts == MD_active_courts(Len(players))
        current_round_num == Len(session_rounds) + 1
    IN
    /\ app = MixedDoublesApp
    /\ Len(session_rounds) < MaxRounds
    /\ IF Len(players) < num_courts * 2
       THEN /\ ret' = [ op |-> "generate_round", result |-> "Error" ]
            /\ UNCHANGED << player_stats, session_rounds >>
       ELSE \E sitting_teams \in
                    MD_select_sitting_teams(player_stats, players, current_round_num) :
              \E shuffled \in shuffle(SelectSeq(players,
                                  LAMBDA t : t.name \notin Range(sitting_teams))) :
                /\ player_stats' =
                     mark_sitting(player_stats, sitting_teams, current_round_num)
                /\ session_rounds' = Append(session_rounds,
                     [ round_number |-> current_round_num,
                       courts |-> MD_courts(num_courts, shuffled),
                       sitting_teams |-> sitting_teams ])
                /\ ret' = [ op |-> "generate_round", result |-> "Round" ]
    /\ UNCHANGED << match_history, court_history, app, players, current_session, session_history, player_tiers,
                    is_seeding_session, player_numbers, next_player_number,
                    tier_court_assignments >>

\* the winner's and the loser's tallies of record_game_score
MD_tally(stats, team1_name, team2_name, team1_score, team2_score) ==
    IF team1_score > team2_score
    THEN [ stats EXCEPT ![team1_name].wins = @ + 1, ![team2_name].losses = @ + 1 ]
    ELSE [ stats EXCEPT ![team2_name].wins = @ + 1, ![team1_name].losses = @ + 1 ]

\* the statistics record_game_score leaves and whether it raised KeyError:
\* it updates team1, then team2, then the tallies, then the score records
MD_update_stats(stats, round_num, team1_name, team2_name, team1_score, team2_score) ==
    IF team1_name \notin DOMAIN stats
    THEN [ stats |-> stats, raised |-> TRUE ]
    ELSE LET after1 == [ stats EXCEPT
                           ![team1_name].games_played = @ + 1,
                           ![team1_name].total_points = @ + team1_score,
                           ![team1_name].total_points_against = @ + team2_score ]
         IN  IF team2_name \notin DOMAIN stats
             THEN [ stats |-> after1, raised |-> TRUE ]
             ELSE LET after2 == [ after1 EXCEPT
                                    ![team2_name].games_played = @ + 1,
                                    ![team2_name].total_points = @ + team2_score,
                                    ![team2_name].total_points_against = @ + team1_score ]
                      tallied == MD_tally(after2, team1_name, team2_name,
                                          team1_score, team2_score)
                      stored1 == [ tallied EXCEPT ![team1_name].game_scores =
                                     Append(@, [ round |-> round_num,
                                                 opponent |-> team2_name,
                                                 score_for |-> team1_score,
                                                 score_against |-> team2_score ]) ]
                  IN  [ stats |-> [ stored1 EXCEPT ![team2_name].game_scores =
                                     Append(@, [ round |-> round_num,
                                                 opponent |-> team1_name,
                                                 score_for |-> team2_score,
                                                 score_against |-> team1_score ]) ],
                        raised |-> FALSE ]

MD_record_game_score(round_num, court_num, team1_score, team2_score) ==
    LET failed == /\ ret' = [ op |-> "record_game_score", result |-> "False" ]
                  /\ UNCHANGED << session_rounds, player_stats >>
    IN
    /\ app = MixedDoublesApp
    /\ IF round_num < 1 \/ round_num > Len(session_rounds)
       THEN failed
       ELSE LET courts == session_rounds[round_num].courts
                hits == { i \in DOMAIN courts : courts[i].court = court_num }
                i == IF hits = {} THEN 0
                     ELSE CHOOSE k \in hits : \A j \in hits : k <= j
            IN  IF i = 0 \/ courts[i].completed
                THEN failed
                ELSE LET after == MD_update_stats(player_stats, round_num,
                                     courts[i].team1.name, courts[i].team2.name,
                                     team1_score, team2_score)
                     IN  /\ session_rounds' =
                              [ session_rounds EXCEPT ![round_num].courts[i] =
                                  [ @ EXCEPT !.team1_score = team1_score,
                                             !.team2_score = team2_score,
                                             !.completed = TRUE ] ]
                         /\ player_stats' = after.stats
                         /\ ret' = [ op |-> "record_game_score",
                                     result |-> IF after.raised THEN "KeyError"
                                                ELSE "True",
                                     round_num |-> round_num, index |-> i ]
    /\ UNCHANGED << match_history, court_history, app, players, current_session, session_history, player_tiers,
                    is_seeding_session, player_numbers, next_player_number,
                    tier_court_assignments >>

\* one line of MixedDoublesLeague.get_rankings
MD_ranking_entry(stats, team) ==
    [ team |-> team.name, player1 |-> team.player1, player2 |-> team.player2,
      wins |-> stats[team.name].wins,
      losses |-> stats[team.name].losses,
      points |-> stats[team.name].total_points,
      points_against |-> stats[team.name].total_points_against,
      differential |-> stats[team.name].total_points
                         - stats[team.name].total_points_against,
      games_played |-> stats[team.name].games_played ]

\* sort(reverse=True) on (wins, differential)
MD_ranking_key(x) == << -x.wins, -x.differential >>

MD_get_rankings(teams, stats) ==
    LET rankings == [ i \in 1..Len(teams) |-> MD_ranking_entry(stats, teams[i]) ]
    IN  StableSort(rankings, [ i \in DOMAIN rankings |-> MD_ranking_key(rankings[i]) ])

----------------------------------------------------------------------------
(* The engine driven by its callers *)

\* one line of RoundRobinLeague.get_rankings
RR_ranking_entry(stats, player) ==
    [ player |-> player,
      games_played |-> stats[player].games_played,
      wins |-> stats[player].wins,
      losses |-> stats[player].losses,
      points |-> stats[player].total_points,
      points_against |-> stats[player].total_points_against,
      differential |-> stats[player].total_points - stats[player].total_points_against ]

\* sort(reverse=True) on (wins, differential, points) keeps the order of equal
\* lines, as an ascending stable sort on the negated key does
RR_ranking_key(x) == << -x.wins, -x.differential, -x.points >>

RR_get_rankings(roster, stats) ==
    LET rankings == [ i \in 1..Len(roster) |-> RR_ranking_entry(stats, roster[i]) ]
    IN  StableSort(rankings, [ i \in DOMAIN rankings |-> RR_ranking_key(rankings[i]) ])

NoCall == [ op |-> "init", result |-> "None" ]

\* the roster fields after add_player on each of loaded, in order, the first
\* of them numbered first_number and all of them in the tier add_player gives
LoadedRoster(loaded, first_number, new_stats) ==
    /\ players = loaded
    /\ player_stats = [ p \in Range(loaded) |-> new_stats ]
    /\ player_numbers =
         [ p \in Range(loaded) |->
             first_number - 1 + CHOOSE i \in DOMAIN loaded : loaded[i] = p ]
    /\ next_player_number = first_number + Len(loaded)

FirstPlayers(n) == [ i \in 1..n |-> NamePool[i] ]

\* a SeededLadderLeague or RoundRobinLeague as MainWindow has it once
\* load_data has run: as constructed when there is no save file, or as saved
\* by an earlier run after add_player of the first PlayersPerCourt names,
\* with no round yet or with the first round generated on court 1
InitConstructed ==
    /\ app \in { SeededApp, RoundRobinApp }
    /\ \E n \in { 0, PlayersPerCourt } :
          /\ LoadedRoster(FirstPlayers(n), 1,
                          IF app = SeededApp THEN NewStats ELSE RR_NewStats)
          /\ player_tiers = IF app = SeededApp
                            THEN [ p \in Range(FirstPlayers(n)) |-> 4 ]
                            ELSE << >>
          /\ session_rounds \in
               IF n = 0 THEN { <<>> }
               ELSE { <<>>,
                      << round_data(1, << create_court_data(1, FirstPlayers(n)) >>,
                                    <<>>) >> }
    /\ current_session = 1
    /\ session_history = <<>>
    /\ match_history = <<>>
    /\ court_history = <<>>
    /\ is_seeding_session = TRUE
    /\ tier_court_assignments = DefaultTierCourts
    /\ ret = NoCall
    /\ calls = 0

\* a SeededLadderLeague saved after add_player of one name, new_session (which
\* seeds that player into tier 1) and add_player of PlayersPerCourt + 1 more
InitTiered ==
    /\ app = SeededApp
    /\ LoadedRoster(FirstPlayers(PlayersPerCourt + 2), 1, NewStats)
    /\ player_tiers = [ p \in Range(FirstPlayers(PlayersPerCourt + 2)) |->
                          IF p = NamePool[1] THEN 1 ELSE 4 ]
    /\ session_rounds = <<>>
    /\ current_session = 2
    /\ session_history = <<>>
    /\ match_history = <<>>
    /\ court_history = <<>>
    /\ is_seeding_session = FALSE
    /\ tier_court_assignments = DefaultTierCourts
    /\ ret = NoCall
    /\ calls = 0

Init == InitConstructed \/ InitTiered

\* the (round_num, court_num, team1, team2) a caller passes to
\* record_game_score: a match of the session, addressed by its round and
\* court number, without side identities or with its own sides as
\* MainWindow.enter_score passes them; or a round or court that does not exist
RecordArgs ==
    UNION { UNION { { << r, c.court, <<>>, <<>> >>, << r, c.court, c.team1, c.team2 >> } :
                     c \in Range(session_rounds[r].courts) } :
            r \in DOMAIN session_rounds }
      \cup { << 0, 1, <<>>, <<>> >>, << Len(session_rounds) + 1, 1, <<>>, <<>> >> }
      \cup { << r, 5, <<>>, <<>> >> : r \in DOMAIN session_rounds }

\* names that occur in the rounds of the current session or in the history
Referenced ==
    LET of_rounds(rounds) ==
            UNION { Range(rounds[r].sitting_players)
                      \cup UNION { Range(c.players) : c \in Range(rounds[r].courts) } :
                    r \in DOMAIN rounds }
    IN  of_rounds(session_rounds)
          \cup UNION { of_rounds(session_history[h].rounds) : h \in DOMAIN session_history }

\* the names a caller passes to add_player: the empty name, a name on the
\* roster, a name removed earlier that rounds still mention, or a new name.
\* New names are interchangeable, so the first unused one stands for all.
AddNames ==
    LET used == Range(players) \cup Referenced
        unused == { i \in 1..MaxPlayers : NamePool[i] \notin used }
    IN  { "" } \cup (used \cap Names)
          \cup { NamePool[i] : i \in { k \in unused : \A j \in unused : k <= j } }

\* one more call served
Counted ==
    /\ calls < MaxCalls
    /\ calls' = calls + 1

Next ==
    \/ \E name \in AddNames : Counted /\ add_player(name)
    \/ \E name \in Names : Counted /\ remove_player(name)
    \/ Counted /\ generate_round
    \/ \E a \in RecordArgs, score \in Scores :
            Counted /\ record_game_score(a[1], a[2], score[1], score[2], a[3], a[4])
    \/ Counted /\ new_session
    \/ \E name \in AddNames : Counted /\ RR_add_player(name)
    \/ \E name \in Names : Counted /\ RR_remove_player(name)
    \/ Counted /\ RR_generate_round
    \/ \E a \in RecordArgs, score \in Scores :
            Counted /\ RR_record_game_score(a[1], a[2], score[1], score[2])

Spec == Init /\ [][Next]_vars


----------------------------------------------------------------------------
(* select_sitting_players on its own: a pool with any sit-out history *)

\* games_played a pool member has when the selection is made
PoolGames == { 0, 1 }

\* (rounds_sat_out, last_sat_out_round) of a pool member: never sat out, sat
\* out the round before current_round_num, or sat out the round before that
SatOutHistories(current_round_num) ==
    { << 0, -2 >>, << 1, current_round_num - 1 >>, << 1, current_round_num - 2 >> }

PoolStats(new_stats, current_round_num) ==
    { [ new_stats EXCEPT !.games_played = g, !.rounds_sat_out = h[1],
                         !.last_sat_out_round = h[2] ] :
        g \in PoolGames, h \in SatOutHistories(current_round_num) }

\* an engine whose roster is the pool, in round SelectRound of a session; the
\* round-robin engine sits nobody out of a roster that fills no court twice
\* over, so its rosters go one player further
InitSelect ==
    /\ app \in { SeededApp, RoundRobinApp }
    /\ \E n \in 0..(MaxPool + 1) :
          /\ app = SeededApp => n <= MaxPool
          /\ players = FirstPlayers(n)
          /\ player_stats \in
               [ Range(FirstPlayers(n)) ->
                   PoolStats(IF app = SeededApp THEN NewStats ELSE RR_NewStats,
                             SelectRound) ]
          /\ player_numbers = [ p \in Range(FirstPlayers(n)) |->
                                 CHOOSE i \in 1..n : NamePool[i] = p ]
          /\ next_player_number = n + 1
          /\ player_tiers = IF app = SeededApp
                            THEN [ p \in Range(FirstPlayers(n)) |-> 4 ]
                            ELSE << >>
    /\ session_rounds = <<>>
    /\ current_session = 1
    /\ session_history = <<>>
    /\ match_history = <<>>
    /\ court_history = <<>>
    /\ is_seeding_session = TRUE
    /\ tier_court_assignments = DefaultTierCourts
    /\ ret = NoCall
    /\ calls = 0

\* SeededLadderLeague.select_sitting_players(players, num_needed, SelectRound)
SelectCall ==
    /\ app = SeededApp
    /\ ret = NoCall
    /\ \E num_needed \in 0..(Len(players) + 1) :
          ret' = [ op |-> "select_sitting_players",
                   result |-> select_sitting_players(player_stats, players,
                                  num_needed, SelectRound),
                   num_needed |-> num_needed,
                   current_round_num |-> SelectRound ]
    /\ UNCHANGED << match_history, court_history, app, players, session_rounds, current_session, player_stats,
                    session_history, player_tiers, is_seeding_session,
                    player_numbers, next_player_number, tier_court_assignments,
                    calls >>

\* RoundRobinLeague.select_sitting_players(SelectRound), which takes the
\* roster for its pool and the places on the active courts for its demand
RR_SelectCall ==
    /\ app = RoundRobinApp
    /\ ret = NoCall
    /\ \E sitting \in RR_select_sitting_players(player_stats, players, SelectRound) :
          ret' = [ op |-> "select_sitting_players",
                   result |-> sitting,
                   num_needed |-> active_courts(Len(players)) * 4,
                   current_round_num |-> SelectRound ]
    /\ UNCHANGED << match_history, court_history, app, players, session_rounds, current_session, player_stats,
                    session_history, player_tiers, is_seeding_session,
                    player_numbers, next_player_number, tier_court_assignments,
                    calls >>

NextSelect ==
    \/ SelectCall
    \/ RR_SelectCall

SpecSelect == InitSelect /\ [][NextSelect]_vars


----------------------------------------------------------------------------
(* One session of a fixed roster of nine: two courts, one player sitting out *)

RosterOfNine == FirstPlayers(2 * PlayersPerCourt + 1)

Init9 ==
    /\ app \in { SeededApp, RoundRobinApp }
    /\ LoadedRoster(RosterOfNine, 1,
                    IF app = SeededApp THEN NewStats ELSE RR_NewStats)
    /\ player_tiers = IF app = SeededApp
                      THEN [ p \in Range(RosterOfNine) |-> 4 ]
                      ELSE << >>
    /\ session_rounds = <<>>
    /\ current_session = 1
    /\ session_history = <<>>
    /\ match_history = <<>>
    /\ court_history = <<>>
    /\ is_seeding_session = TRUE
    /\ tier_court_assignments = DefaultTierCourts
    /\ ret = NoCall
    /\ calls = 0

\* the (round_num, court_num) of the matches of the session not yet scored
OpenMatches ==
    UNION { { << r, c.court >> : c \in { x \in Range(session_rounds[r].courts) :
                                            ~x.completed } } :
            r \in DOMAIN session_rounds }

\* the score entered for a match of the nine
Score9 == << 11, 7 >>

Next9 ==
    \/ generate_round /\ UNCHANGED calls
    \/ \E m \in OpenMatches :
          /\ record_game_score(m[1], m[2], Score9[1], Score9[2], <<>>, <<>>)
          /\ UNCHANGED calls
    \/ RR_generate_round /\ UNCHANGED calls
    \/ \E m \in OpenMatches :
          /\ RR_record_game_score(m[1], m[2], Score9[1], Score9[2])
          /\ UNCHANGED calls

Spec9 == Init9 /\ [][Next9]_vars


----------------------------------------------------------------------------
(* The end of a session: perform_seeding and perform_promotion_relegation on
   a roster with any tier sizes and session results *)

\* what one game, or none, leaves in a player's statistics: the sides of the
\* two Scores
StatKinds ==
    << [ games_played |-> 0, total_points |-> 0, total_points_against |-> 0 ],
       [ games_played |-> 1, total_points |-> 11, total_points_against |-> 7 ],
       [ games_played |-> 1, total_points |-> 11, total_points_against |-> 9 ],
       [ games_played |-> 1, total_points |-> 9, total_points_against |-> 11 ],
       [ games_played |-> 1, total_points |-> 7, total_points_against |-> 11 ] >>

\* player i of the roster gets StatKinds[(i * stride + offset) % n + 1]; with
\* stride 0 the whole roster is level
PatternStrides == { 0, 1, 2 }

SeasonStats(roster, stride, offset) ==
    [ p \in Range(roster) |->
        LET i == CHOOSE k \in DOMAIN roster : roster[k] = p
            kind == StatKinds[((i * stride + offset) % Len(StatKinds)) + 1]
        IN  [ NewStats EXCEPT !.games_played = kind.games_played,
                              !.total_points = kind.total_points,
                              !.total_points_against = kind.total_points_against ] ]

\* sizes a tier has when a tiered session ends: empty, one short of the
\* size that swaps, or that size and more
TierSizes == { 0 } \cup ((SwapTierSize - 1)..MaxTierSize)

\* tier of the i-th player when the roster lists the tiers block by block
BlockTier(sizes, i) ==
    IF i <= sizes[1] THEN 1
    ELSE IF i <= sizes[1] + sizes[2] THEN 2
    ELSE IF i <= sizes[1] + sizes[2] + sizes[3] THEN 3
    ELSE 4

\* a seeding session of players as add_player left them (tier 4), or a tiered
\* session with the tiers listed from the top or from the bottom of the roster
InitSeason ==
    /\ app = SeededApp
    /\ \/ /\ is_seeding_session = TRUE
          /\ current_session = 1
          /\ \E n \in 0..MaxSeeded :
                /\ players = FirstPlayers(n)
                /\ player_tiers = [ p \in Range(FirstPlayers(n)) |-> 4 ]
       \/ /\ is_seeding_session = FALSE
          /\ current_session = 2
          /\ \E sizes \in [ 1..4 -> TierSizes ], top_first \in BOOLEAN :
                LET n == sizes[1] + sizes[2] + sizes[3] + sizes[4]
                IN  /\ players = FirstPlayers(n)
                    /\ player_tiers =
                         [ p \in Range(FirstPlayers(n)) |->
                             LET i == CHOOSE k \in 1..n : NamePool[k] = p
                             IN  IF top_first THEN BlockTier(sizes, i)
                                 ELSE 5 - BlockTier(sizes, n + 1 - i) ]
    /\ \E stride \in PatternStrides, offset \in 0..(Len(StatKinds) - 1) :
          player_stats = SeasonStats(players, stride, offset)
    /\ player_numbers = [ p \in Range(players) |->
                           CHOOSE i \in DOMAIN players : players[i] = p ]
    /\ next_player_number = Len(players) + 1
    /\ session_rounds = <<>>
    /\ session_history = <<>>
    /\ match_history = <<>>
    /\ court_history = <<>>
    /\ tier_court_assignments = DefaultTierCourts
    /\ ret = NoCall
    /\ calls = 0

NextSeason == new_session /\ UNCHANGED calls

SpecSeason == InitSeason /\ [][NextSeason]_vars


----------------------------------------------------------------------------
(* A seeding session that is reset and played again with new players *)

InitReseed ==
    /\ app = SeededApp
    /\ LoadedRoster(FirstPlayers(PlayersPerCourt), 1, NewStats)
    /\ player_tiers = [ p \in Range(FirstPlayers(PlayersPerCourt)) |-> 4 ]
    /\ session_rounds = <<>>
    /\ current_session = 1
    /\ session_history = <<>>
    /\ match_history = <<>>
    /\ court_history = <<>>
    /\ is_seeding_session = TRUE
    /\ tier_court_assignments = DefaultTierCourts
    /\ ret = NoCall
    /\ calls = 0

\* one more of the MaxReseedCalls calls served
CountedReseed ==
    /\ calls < MaxReseedCalls
    /\ calls' = calls + 1

NextReseed ==
    \/ CountedReseed /\ reset_all
    \/ \E name \in AddNames \ Range(players) : CountedReseed /\ add_player(name)
    \/ CountedReseed /\ generate_round
    \/ \E m \in OpenMatches, score \in Scores :
          CountedReseed /\ record_game_score(m[1], m[2], score[1], score[2], <<>>, <<>>)
    \/ CountedReseed /\ new_session

SpecReseed == InitReseed /\ [][NextReseed]_vars


----------------------------------------------------------------------------
(* The demo rosters of MainWindow.load_demo_players *)

DemoCounts == { 12, 16, 20 }

\* the mapping load_demo_players installs for count players
DemoTierCourts(count) ==
    IF count = 20
    THEN (1 :> <<3, 4>>) @@ (2 :> <<1, 2>>) @@ (3 :> <<2>>) @@ (4 :> <<1>>)
    ELSE (1 :> <<4>>) @@ (2 :> <<3>>) @@ (3 :> <<2>>) @@ (4 :> <<1>>)

\* load_demo_players(count): a new engine, count players added, the mapping set
InitDemo ==
    /\ app = SeededApp
    /\ \E count \in DemoCounts :
          /\ LoadedRoster(FirstPlayers(count), 1, NewStats)
          /\ player_tiers = [ p \in Range(FirstPlayers(count)) |-> 4 ]
          /\ tier_court_assignments = DemoTierCourts(count)
    /\ session_rounds = <<>>
    /\ current_session = 1
    /\ session_history = <<>>
    /\ match_history = <<>>
    /\ court_history = <<>>
    /\ is_seeding_session = TRUE
    /\ ret = NoCall
    /\ calls = 0

\* the seeding session is ended and the first tiered round generated
NextDemo ==
    \/ is_seeding_session /\ new_session /\ UNCHANGED calls
    \/ ~is_seeding_session /\ session_rounds = <<>> /\ generate_round
          /\ UNCHANGED calls

SpecDemo == InitDemo /\ [][NextDemo]_vars


----------------------------------------------------------------------------
(* The leagues that count wins and losses, RoundRobinLeague and             *)
(* MixedDoublesLeague, playing rounds and taking scores from ScoreDialog    *)

\* (team1_score, team2_score) pairs entered in the score dialog, whose two
\* spin boxes each take 0..99
DialogScores == { <<11, 9>>, <<9, 7>>, <<9, 11>>, <<9, 9>> }

\* a RoundRobinLeague of 4 or 5 players or a MixedDoublesLeague of 4 or 5
\* teams, loaded with no round yet
InitWinLoss ==
    /\ app \in { RoundRobinApp, MixedDoublesApp }
    /\ \E n \in { PlayersPerCourt, PlayersPerCourt + 1 } :
          IF app = RoundRobinApp
          THEN LoadedRoster(FirstPlayers(n), 1, RR_NewStats)
          ELSE /\ players = FirstTeams(n)
               /\ player_stats = [ t \in { TeamNames[i] : i \in 1..n } |-> MD_NewStats ]
               /\ player_numbers =
                    [ t \in { TeamNames[i] : i \in 1..n } |->
                        CHOOSE i \in 1..n : TeamNames[i] = t ]
               /\ next_player_number = n + 1
    /\ player_tiers = << >>
    /\ session_rounds = <<>>
    /\ current_session = 1
    /\ session_history = <<>>
    /\ match_history = <<>>
    /\ court_history = <<>>
    /\ is_seeding_session = TRUE
    /\ tier_court_assignments = DefaultTierCourts
    /\ ret = NoCall
    /\ calls = 0

NextWinLoss ==
    \/ Len(session_rounds) < MaxWinLossRounds /\ RR_generate_round /\ UNCHANGED calls
    \/ \E m \in OpenMatches, score \in DialogScores :
          /\ RR_record_game_score(m[1], m[2], score[1], score[2])
          /\ UNCHANGED calls
    \/ Len(session_rounds) < MaxWinLossRounds /\ MD_generate_round /\ UNCHANGED calls
    \/ \E m \in OpenMatches, score \in DialogScores :
          /\ MD_record_game_score(m[1], m[2], score[1], score[2])
          /\ UNCHANGED calls

SpecWinLoss == InitWinLoss /\ [][NextWinLoss]_vars


----------------------------------------------------------------------------
(* Rounds generated by leagues of every size *)

\* a league of any of the three classes loaded with a roster of 0 to
\* MaxRoster players, or 0 to MaxTeams teams, and no round yet
InitRound ==
    /\ app \in { SeededApp, RoundRobinApp, MixedDoublesApp }
    /\ IF app = MixedDoublesApp
       THEN \E n \in 0..MaxTeams :
               /\ players = FirstTeams(n)
               /\ player_stats = [ t \in { TeamNames[i] : i \in 1..n } |-> MD_NewStats ]
               /\ player_numbers =
                    [ t \in { TeamNames[i] : i \in 1..n } |->
                        CHOOSE i \in 1..n : TeamNames[i] = t ]
               /\ next_player_number = n + 1
               /\ player_tiers = << >>
       ELSE \E n \in 0..MaxRoster :
               /\ LoadedRoster(FirstPlayers(n), 1,
                               IF app = SeededApp THEN NewStats ELSE RR_NewStats)
               /\ player_tiers = IF app = SeededApp
                                 THEN [ p \in Range(FirstPlayers(n)) |-> 4 ]
                                 ELSE << >>
    /\ session_rounds = <<>>
    /\ current_session = 1
    /\ session_history = <<>>
    /\ match_history = <<>>
    /\ court_history = <<>>
    /\ is_seeding_session = TRUE
    /\ tier_court_assignments = DefaultTierCourts
    /\ ret = NoCall
    /\ calls = 0

NextRound ==
    \/ generate_round /\ UNCHANGED calls
    \/ RR_generate_round /\ UNCHANGED calls
    \/ MD_generate_round /\ UNCHANGED calls

SpecRound == InitRound /\ [][NextRound]_vars


----------------------------------------------------------------------------
(* Saving the league to its JSON file and loading it again *)

\* json.dump writes the keys of a dict as strings
KeyStrings == << "1", "2", "3", "4" >>

\* int(k) of a key read from the file
int(k) == CHOOSE t \in DOMAIN KeyStrings : KeyStrings[t] = k

\* the court lists typed into a tier's input field of the court setup
CourtLists == { <<>>, <<1>>, <<4>>, <<2, 3>>, <<1, 4>> }

\* what save_to_file writes
file_data ==
    [ players |-> players,
      session_rounds |-> session_rounds,
      current_session |-> current_session,
      player_stats |-> player_stats,
      session_history |-> session_history,
      player_tiers |-> player_tiers,
      is_seeding_session |-> is_seeding_session,
      player_numbers |-> player_numbers,
      next_player_number |-> next_player_number,
      tier_court_assignments |->
          [ k \in { KeyStrings[t] : t \in DOMAIN tier_court_assignments } |->
              tier_court_assignments[int(k)] ] ]

save_to_file ==
    /\ app = SeededApp
    /\ ret' = [ op |-> "save_to_file", result |-> "None", data |-> file_data ]
    /\ UNCHANGED << match_history, court_history, app, players, session_rounds, current_session, player_stats,
                    session_history, player_tiers, is_seeding_session,
                    player_numbers, next_player_number, tier_court_assignments,
                    calls >>

\* MainWindow.save_court_assignments: the mapping typed into the four input
\* fields replaces the league's mapping and the league is saved
save_court_assignments(new_assignments) ==
    /\ app = SeededApp
    /\ calls < MaxSetups
    /\ calls' = calls + 1
    /\ tier_court_assignments' = new_assignments
    /\ ret' = [ op |-> "save_to_file", result |-> "None",
                data |-> [ file_data EXCEPT !.tier_court_assignments =
                             [ k \in { KeyStrings[t] : t \in DOMAIN new_assignments } |->
                                 new_assignments[int(k)] ] ] ]
    /\ UNCHANGED << match_history, court_history, app, players, session_rounds, current_session, player_stats,
                    session_history, player_tiers, is_seeding_session,
                    player_numbers, next_player_number >>

\* load_from_file of the file the last save wrote
load_from_file ==
    /\ app = SeededApp
    /\ ret.op = "save_to_file"
    /\ LET data == ret.data
           raw_assignments == data.tier_court_assignments
           loaded_assignments ==
               [ t \in { int(k) : k \in DOMAIN raw_assignments } |->
                   raw_assignments[KeyStrings[t]] ]
       IN  /\ players' = data.players
           /\ session_rounds' = data.session_rounds
           /\ current_session' = data.current_session
           /\ player_stats' = data.player_stats
           /\ session_history' = data.session_history
           /\ player_tiers' = data.player_tiers
           /\ is_seeding_session' = data.is_seeding_session
           /\ player_numbers' = data.player_numbers
           /\ next_player_number' = data.next_player_number
           /\ tier_court_assignments' =
                IF /\ DictGet(loaded_assignments, 1, <<0>>) = <<2, 3>>
                   /\ DictGet(loaded_assignments, 2, <<0>>) = <<1, 4>>
                THEN DefaultTierCourts
                ELSE loaded_assignments
    /\ ret' = [ op |-> "load_from_file", result |-> "True" ]
    /\ UNCHANGED << match_history, court_history, app, calls >>

\* a seeded league in its seeding session or tiered, with the default mapping
InitSave ==
    /\ \/ InitConstructed /\ app = SeededApp
       \/ InitTiered
    /\ calls = 0

NextSave ==
    \/ save_to_file
    \/ \E new_assignments \in [ 1..4 -> CourtLists ] :
          save_court_assignments(new_assignments)
    \/ load_from_file

SpecSave == InitSave /\ [][NextSave]_vars


----------------------------------------------------------------------------
(* LadderLeague (ladder_league_old.py): the greedy ladder, which keeps no   *)
(* sessions and no statistics, only the roster and its two histories        *)

LadderApp == "ladder_league_old"

\* LadderLeague.num_courts
num_courts == 4

\* max_attempts of generate_round
max_attempts == 1000

LL_add_player(name) ==
    /\ app = LadderApp
    /\ IF name # "" /\ name \notin Range(players)
       THEN /\ players' = Append(players, name)
            /\ ret' = [ op |-> "add_player", name |-> name, result |-> "True" ]
       ELSE /\ ret' = [ op |-> "add_player", name |-> name, result |-> "False" ]
            /\ UNCHANGED players
    /\ UNCHANGED << match_history, court_history, app, session_rounds,
                    current_session, player_stats, session_history, player_tiers,
                    is_seeding_session, player_numbers, next_player_number,
                    tier_court_assignments >>

LL_remove_player(name) ==
    /\ app = LadderApp
    /\ IF name \in Range(players)
       THEN /\ players' = ListRemove(players, name)
            /\ ret' = [ op |-> "remove_player", name |-> name, result |-> "True" ]
       ELSE /\ ret' = [ op |-> "remove_player", name |-> name, result |-> "False" ]
            /\ UNCHANGED players
    /\ UNCHANGED << match_history, court_history, app, session_rounds,
                    current_session, player_stats, session_history, player_tiers,
                    is_seeding_session, player_numbers, next_player_number,
                    tier_court_assignments >>

\* `in` on a list: membership in a two-element match entry
InMatch(player, match) == player = match[1] \/ player = match[2]

get_matchup_count(history, player1, player2) ==
    Len(SelectSeq(history,
                  LAMBDA match : InMatch(player1, match) /\ InMatch(player2, match)))

get_court_count(history, player, court) ==
    Len(SelectSeq(history,
                  LAMBDA record : record.player = player /\ record.court = court))

\* the score the inner loop of generate_round gives one available player
RECURSIVE matchup_score(_, _, _)
matchup_score(history, player, players_for_court) ==
    IF players_for_court = <<>> THEN 0
    ELSE get_matchup_count(history, player, Head(players_for_court)) * 10
           + matchup_score(history, player, Tail(players_for_court))

slot_score(matches, records, player, players_for_court, court_num) ==
    matchup_score(matches, player, players_for_court)
      + get_court_count(records, player, court_num) * 5

\* the scan `for player in available_players`: best holds best_player and
\* best_score, which start as None and float('inf')
RECURSIVE scan_available(_, _, _, _, _, _)
scan_available(matches, records, available_players, players_for_court, court_num, best) ==
    IF available_players = <<>> THEN best
    ELSE LET player == Head(available_players)
             score == slot_score(matches, records, player, players_for_court,
                                 court_num)
         IN  scan_available(matches, records, Tail(available_players),
                            players_for_court, court_num,
                            IF best.best_score = << >> \/ score < best.best_score[1]
                            THEN [ best_player |-> player, best_score |-> << score >> ]
                            ELSE best)

\* a best_player that takes the first available player whatever the scores
best_player_first_available(matches, records, available_players, players_for_court, court_num) ==
    Head(available_players)

best_player(matches, records, available_players, players_for_court, court_num) ==
    scan_available(matches, records, available_players, players_for_court,
                   court_num, [ best_player |-> "None", best_score |-> << >> ]).best_player

\* a fill_court that leaves the chosen player among the available ones
RECURSIVE fill_court_keeps_available(_, _, _, _, _, _)
fill_court_keeps_available(matches, records, available_players, players_for_court, court_num, passes) ==
    IF passes = 0 \/ available_players = <<>>
    THEN [ players_for_court |-> players_for_court,
           available_players |-> available_players ]
    ELSE LET best == best_player(matches, records, available_players,
                                 players_for_court, court_num)
         IN  fill_court_keeps_available(matches, records, available_players,
                             Append(players_for_court, best), court_num, passes - 1)

\* a fill_court that stops one player short of a full court
RECURSIVE fill_court_one_short(_, _, _, _, _, _)
fill_court_one_short(matches, records, available_players, players_for_court, court_num, passes) ==
    IF passes <= 1 \/ available_players = <<>>
    THEN [ players_for_court |-> players_for_court,
           available_players |-> available_players ]
    ELSE LET best == best_player(matches, records, available_players,
                                 players_for_court, court_num)
         IN  fill_court_one_short(matches, records,
                             ListRemove(available_players, best),
                             Append(players_for_court, best), court_num, passes - 1)

\* the passes of `for _ in range(4)` over one court
RECURSIVE fill_court(_, _, _, _, _, _)
fill_court(matches, records, available_players, players_for_court, court_num, passes) ==
    IF passes = 0 \/ available_players = <<>>
    THEN [ players_for_court |-> players_for_court,
           available_players |-> available_players ]
    ELSE LET best == best_player(matches, records, available_players,
                                 players_for_court, court_num)
         IN  IF best # "None" /\ best # ""
             THEN fill_court(matches, records, ListRemove(available_players, best),
                             Append(players_for_court, best), court_num, passes - 1)
             ELSE fill_court(matches, records, available_players,
                             players_for_court, court_num, passes - 1)

\* the while loop of generate_round
RECURSIVE fill_courts(_, _, _, _, _)
fill_courts(matches, records, available_players, courts, attempts) ==
    IF Len(courts) < num_courts /\ Len(available_players) >= 4
         /\ attempts < max_attempts
    THEN LET court_num == Len(courts) + 1
             filled == fill_court(matches, records, available_players, <<>>,
                                  court_num, 4)
         IN  fill_courts(matches, records, filled.available_players,
                         IF Len(filled.players_for_court) = 4
                         THEN Append(courts,
                                     [ court |-> court_num,
                                       players |-> filled.players_for_court ])
                         ELSE courts,
                         attempts + 1)
    ELSE [ courts |-> courts, attempts |-> attempts ]

\* the pairs one court adds to match_history
court_matches(court) ==
    LET ps == court.players
    IN  Flatten([ i \in DOMAIN ps |->
                    [ k \in 1..(Len(ps) - i) |-> << ps[i], ps[i + k] >> ] ])

\* the records one court adds to court_history
court_records(court) ==
    [ i \in DOMAIN court.players |->
        [ player |-> court.players[i], court |-> court.court ] ]

\* f"Could only fill {len(courts)} courts. Need more players."
could_only_fill(filled) ==
    << "Could only fill 0 courts. Need more players.",
       "Could only fill 1 courts. Need more players.",
       "Could only fill 2 courts. Need more players.",
       "Could only fill 3 courts. Need more players." >>[filled + 1]

\* a generate_round that records the courts it filled before it fails
LL_generate_round_keeps_partial(available_players) ==
    /\ app = LadderApp
    /\ IF Len(players) < 8
       THEN /\ ret' = [ op |-> "generate_round", result |-> "None",
                        error |-> "Need at least 8 players (2 per court x 4 courts)",
                        available_players |-> << >>, courts |-> << >>,
                        attempts |-> 0 ]
            /\ UNCHANGED << match_history, court_history >>
       ELSE   LET filled == fill_courts(match_history, court_history,
                                        available_players, << >>, 0)
                  courts == filled.courts
              IN  IF Len(courts) < num_courts
                  THEN /\ ret' = [ op |-> "generate_round", result |-> "None",
                                   error |-> could_only_fill(Len(courts)),
                                   available_players |-> available_players,
                                   courts |-> courts,
                                   attempts |-> filled.attempts ]
                       /\ match_history' = match_history
                            \o Flatten([ c \in DOMAIN courts |-> court_matches(courts[c]) ])
                       /\ court_history' = court_history
                            \o Flatten([ c \in DOMAIN courts |-> court_records(courts[c]) ])
                  ELSE /\ match_history' = match_history
                            \o Flatten([ c \in DOMAIN courts |-> court_matches(courts[c]) ])
                       /\ court_history' = court_history
                            \o Flatten([ c \in DOMAIN courts |-> court_records(courts[c]) ])
                       /\ ret' = [ op |-> "generate_round", result |-> "courts",
                                   error |-> "None",
                                   available_players |-> available_players,
                                   courts |-> courts,
                                   attempts |-> filled.attempts ]
    /\ UNCHANGED << app, players, session_rounds, current_session, player_stats,
                    session_history, player_tiers, is_seeding_session,
                    player_numbers, next_player_number, tier_court_assignments >>

\* LadderLeague.generate_round(), which returns (courts, error), with
\* available_players as random.shuffle leaves the copy of the roster:
\* ret.result says whether the first is the list ret.courts or None, and ret
\* keeps the locals available_players, courts and attempts as they are at the
\* return
LL_generate_round(available_players) ==
    /\ app = LadderApp
    /\ IF Len(players) < 8
       THEN /\ ret' = [ op |-> "generate_round", result |-> "None",
                        error |-> "Need at least 8 players (2 per court x 4 courts)",
                        available_players |-> << >>, courts |-> << >>,
                        attempts |-> 0 ]
            /\ UNCHANGED << match_history, court_history >>
       ELSE   LET filled == fill_courts(match_history, court_history,
                                        available_players, << >>, 0)
                  courts == filled.courts
              IN  IF Len(courts) < num_courts
                  THEN /\ ret' = [ op |-> "generate_round", result |-> "None",
                                   error |-> could_only_fill(Len(courts)),
                                   available_players |-> available_players,
                                   courts |-> courts,
                                   attempts |-> filled.attempts ]
                       /\ UNCHANGED << match_history, court_history >>
                  ELSE /\ match_history' = match_history
                            \o Flatten([ c \in DOMAIN courts |-> court_matches(courts[c]) ])
                       /\ court_history' = court_history
                            \o Flatten([ c \in DOMAIN courts |-> court_records(courts[c]) ])
                       /\ ret' = [ op |-> "generate_round", result |-> "courts",
                                   error |-> "None",
                                   available_players |-> available_players,
                                   courts |-> courts,
                                   attempts |-> filled.attempts ]
    /\ UNCHANGED << app, players, session_rounds, current_session, player_stats,
                    session_history, player_tiers, is_seeding_session,
                    player_numbers, next_player_number, tier_court_assignments >>

----------------------------------------------------------------------------
(* The greedy ladder with rosters around its four courts *)

\* the name a caller removes and adds again: the first of the roster
LadderNames == { NamePool[1] }

InitLadder ==
    /\ app = LadderApp
    /\ \E n \in 0..MaxLadderRoster : players = FirstPlayers(n)
    /\ match_history = <<>>
    /\ court_history = <<>>
    /\ session_rounds = <<>>
    /\ current_session = 1
    /\ player_stats = << >>
    /\ session_history = <<>>
    /\ player_tiers = << >>
    /\ is_seeding_session = TRUE
    /\ player_numbers = << >>
    /\ next_player_number = 1
    /\ tier_court_assignments = DefaultTierCourts
    /\ ret = NoCall
    /\ calls = 0

Reverse(s) == [ i \in 1..Len(s) |-> s[Len(s) + 1 - i] ]

\* orders random.shuffle may leave a list in: any order of a short list; of a
\* longer one its own order, its rotation by one and its reverse
LadderShuffles(s) ==
    IF Len(s) <= MaxShuffle THEN shuffle(s)
    ELSE { s, Rotate(s, 1), Reverse(s) }

\* rounds are generated and, once the league has played one, the first player
\* leaves or is entered again
NextLadder ==
    \/ /\ Len(court_history) < MaxLadderRounds * num_courts * 4
       /\ \E available_players \in LadderShuffles(players) :
             LL_generate_round(available_players)
       /\ UNCHANGED calls
    \/ /\ calls < MaxLadderEdits
       /\ court_history # <<>>
       /\ \E name \in LadderNames : LL_add_player(name)
       /\ calls' = calls + 1
    \/ /\ calls < MaxLadderEdits
       /\ court_history # <<>>
       /\ \E name \in LadderNames : LL_remove_player(name)
       /\ calls' = calls + 1

SpecLadder == InitLadder /\ [][NextLadder]_vars

----------------------------------------------------------------------------
(* Sessions of rosters that leave players sitting out: rounds are generated, *)
(* matches scored and sessions ended                                        *)

\* a seeding session of PlayersPerCourt + 1 players, or the tiered session of
\* InitTiered
InitSession ==
    \/ /\ app = SeededApp
       /\ LoadedRoster(FirstPlayers(PlayersPerCourt + 1), 1, NewStats)
       /\ player_tiers = [ p \in Range(FirstPlayers(PlayersPerCourt + 1)) |-> 4 ]
       /\ session_rounds = <<>>
       /\ current_session = 1
       /\ session_history = <<>>
       /\ match_history = <<>>
       /\ court_history = <<>>
       /\ is_seeding_session = TRUE
       /\ tier_court_assignments = DefaultTierCourts
       /\ ret = NoCall
       /\ calls = 0
    \/ InitTiered

\* one more of the MaxSessionCalls calls served
CountedSession ==
    /\ calls < MaxSessionCalls
    /\ calls' = calls + 1

NextSession ==
    \/ CountedSession /\ generate_round
    \/ \E m \in OpenMatches :
          CountedSession /\ record_game_score(m[1], m[2], Score9[1], Score9[2], <<>>, <<>>)
    \/ CountedSession /\ new_session

SpecSession == InitSession /\ [][NextSession]_vars

----------------------------------------------------------------------------
(* The seeded league with every call that changes the roster or clears it *)

InitRoster == Init /\ app = SeededApp

\* one more of the MaxRosterCalls calls served
CountedRoster ==
    /\ calls < MaxRosterCalls
    /\ calls' = calls + 1

NextRoster ==
    \/ \E name \in AddNames : CountedRoster /\ add_player(name)
    \/ \E name \in Names : CountedRoster /\ remove_player(name)
    \/ CountedRoster /\ generate_round
    \/ \E a \in RecordArgs, score \in Scores :
            CountedRoster /\ record_game_score(a[1], a[2], score[1], score[2], a[3], a[4])
    \/ CountedRoster /\ new_session
    \/ CountedRoster /\ clear_current_session
    \/ CountedRoster /\ reset_all
    \/ CountedRoster /\ clear_all_data

SpecRoster == InitRoster /\ [][NextRoster]_vars

----------------------------------------------------------------------------
(* A long seeding session of the nine, every round scored before the next *)

InitRotation == Init9 /\ app = SeededApp

\* the round just generated put the playing players on the courts in roster
\* order or with the two courts exchanged: two of the orders random.shuffle
\* may leave them in
DealtInOrder ==
    LET round == session_rounds'[Len(session_rounds')]
        playing == SelectSeq(players,
                      LAMBDA p : p \notin Range(round.sitting_players))
    IN  Flatten([ c \in DOMAIN round.courts |-> round.courts[c].players ])
          \in { playing, Rotate(playing, PlayersPerCourt) }

NextRotation ==
    \/ /\ OpenMatches = {}
       /\ generate_round_within(MaxRotationRounds)
       /\ DealtInOrder
       /\ UNCHANGED calls
    \/ \E m \in OpenMatches :
          /\ record_game_score_within(MaxRotationRounds, m[1], m[2],
                                      Score9[1], Score9[2], <<>>, <<>>)
          /\ UNCHANGED calls

SpecRotation == InitRotation /\ [][NextRotation]_vars

----------------------------------------------------------------------------
(* Properties of round generation and score recording *)

LastRound == session_rounds[Len(session_rounds)]

\* the names a round lists, court by court and then the sitting-out list
Places(round) ==
    Flatten([ i \in 1..Len(round.courts) |-> round.courts[i].players ])
      \o round.sitting_players

Occurrences(s, x) == Cardinality({ i \in DOMAIN s : s[i] = x })

ExactlyOnce(roster, round) ==
    /\ \A p \in Range(roster) : Occurrences(Places(round), p) = 1
    /\ Range(Places(round)) \subseteq Range(roster)
    /\ \A i \in DOMAIN round.courts :
         Range(round.courts[i].players)
           = Range(round.courts[i].team1) \cup Range(round.courts[i].team2)

C2_CompletedMatchRejected ==
    [][ ret'.op = "record_game_score"
          => /\ ret'.result # "False"
                  => ~session_rounds[ret'.round_num].courts[ret'.index].completed
             /\ ret'.result = "False"
                  => UNCHANGED << session_rounds, player_stats >> ]_vars

\* C3: record_game_score is all or nothing: success with the match completed
\* and all four participants' statistics updated, or failure and no change.
C3_RecordAllOrNothing ==
    [][ ret'.op = "record_game_score"
          => \/ /\ ret'.result = "True"
                /\ LET court == session_rounds'[ret'.round_num].courts[ret'.index]
                   IN  /\ court.completed
                       /\ \A p \in Range(court.players) :
                            /\ p \in DOMAIN player_stats
                            /\ player_stats'[p].games_played
                                 = player_stats[p].games_played + 1
             \/ /\ ret'.result = "False"
                /\ UNCHANGED << session_rounds, player_stats >> ]_vars

\* C4: with fewer than 4 participants generate_round returns an error,
\* appends no round and changes no sit-out statistics.
C4_TooFewPlayersRejected ==
    [][ (ret'.op = "generate_round" /\ Len(players) < 4)
          => /\ ret'.result = "Error"
             /\ UNCHANGED << session_rounds, player_stats >> ]_vars

----------------------------------------------------------------------------
(* Properties of select_sitting_players *)

\* the call whose result ret holds
Selected == ret.op = "select_sitting_players"

\* pool members that sat out the round before the one selected for
SatOutLastRound ==
    { p \in Range(players) :
        ret.current_round_num - player_stats[p].last_sat_out_round <= 1 }

\* C6: select_sitting_players returns somebody who sat out the round before
\* only if it also returns every pool member who did not; when at least
\* num_sitting pool members did not, it returns none who did.
C6_IneligibleOnlyAfterEligible ==
    Selected =>
        LET returned == Range(ret.result)
            eligible == Range(players) \ SatOutLastRound
        IN  /\ (returned \cap SatOutLastRound # {}) => eligible \subseteq returned
            /\ (Cardinality(eligible) >= Len(players) - ret.num_needed)
                  => returned \cap SatOutLastRound = {}

\* somebody who sat out the round before is returned together with every
\* eligible member of a pool that has some
C6_Witness ==
    /\ Selected
    /\ Range(ret.result) \cap SatOutLastRound # {}
    /\ Range(players) \ SatOutLastRound # {}
    /\ (Range(players) \ SatOutLastRound) \subseteq Range(ret.result)

\* C7: for num_needed <= len(pool) select_sitting_players returns exactly
\* len(pool) - num_needed pairwise distinct members of the pool, and the
\* empty list for num_needed >= len(pool), whatever the sit-out history.
C7_NeverUnderFills ==
    Selected =>
        /\ ret.num_needed <= Len(players)
              => Len(ret.result) = Len(players) - ret.num_needed
        /\ ret.num_needed >= Len(players) => ret.result = <<>>
        /\ \A i, j \in DOMAIN ret.result : ret.result[i] = ret.result[j] => i = j
        /\ Range(ret.result) \subseteq Range(players)

\* a selection from a pool all of whose members sat out the round before
C7_Witness ==
    /\ Selected
    /\ ret.result # <<>>
    /\ SatOutLastRound = Range(players)

----------------------------------------------------------------------------
(* Properties of the sit-out rotation *)

\* C5: with a fixed roster of nine, every round of the session has two
\* courts and one player sitting out, and nobody sits out two consecutive
\* rounds.
C5_NobodySitsTwiceRunning ==
    /\ \A r \in DOMAIN session_rounds :
          /\ Len(session_rounds[r].courts) = 2
          /\ Len(session_rounds[r].sitting_players) = 1
    /\ \A r \in 1..(Len(session_rounds) - 1) :
          Range(session_rounds[r].sitting_players)
            \cap Range(session_rounds[r + 1].sitting_players) = {}

\* two consecutive rounds with a match of the first scored before the second
C5_Witness ==
    /\ Len(session_rounds) >= 2
    /\ \E c \in Range(session_rounds[1].courts) : c.completed
    /\ \E c \in Range(session_rounds[1].courts) : ~c.completed
    /\ session_rounds[1].sitting_players # session_rounds[2].sitting_players

----------------------------------------------------------------------------
(* Properties of the end of a session *)

TierMembers(tiers, t) == { p \in Range(players) : tiers[p] = t }

\* p did better than q in the session that ends: more points, or the same
\* points and a higher differential
Better(p, q) ==
    LET points(x) == player_stats[x].total_points
        differential(x) ==
            player_stats[x].total_points - player_stats[x].total_points_against
    IN  \/ points(p) > points(q)
        \/ points(p) = points(q) /\ differential(p) > differential(q)

\* new_session ends a tiered session in this step
EndsTieredSession == ret'.op = "new_session" /\ ~is_seeding_session

\* new_session ends a seeding session in this step
EndsSeedingSession == ret'.op = "new_session" /\ is_seeding_session

\* C8: at the end of a tiered session, across each boundary between two tiers
\* of at least 4 exactly two of the upper tier move down, none of whom did
\* better than one who does not, and exactly two of the lower tier move up,
\* none of whom did worse than one who does not; across a boundary with a
\* tier of fewer than 4 nobody moves.
C8_SwapTwoAcrossFullBoundaries ==
    [][ EndsTieredSession =>
          \A u \in 1..3 :
            LET upper == TierMembers(player_tiers, u)
                lower == TierMembers(player_tiers, u + 1)
                down == upper \cap TierMembers(player_tiers', u + 1)
                up == lower \cap TierMembers(player_tiers', u)
            IN  IF Cardinality(upper) >= 4 /\ Cardinality(lower) >= 4
                THEN /\ Cardinality(down) = 2
                     /\ Cardinality(up) = 2
                     /\ \A m \in down, s \in upper \ down : ~Better(m, s)
                     /\ \A m \in up, s \in lower \ up : ~Better(s, m)
                ELSE down = {} /\ up = {} ]_vars

\* a tiered session has ended with a swap across one boundary and none
\* across another, next to a tier of fewer than 4
C8_Witness ==
    /\ ret.op = "new_session"
    /\ current_session = 3
    /\ Len(ret.promoted) = 2 /\ Len(ret.relegated) = 2
    /\ \E t \in 1..4 : Cardinality(TierMembers(player_tiers, t)) \in 1..3

\* C9: at the end of a tiered session nobody's tier changes by more than 1,
\* nobody is promoted and relegated, and every tier keeps its size.
C9_NoCascade ==
    [][ EndsTieredSession =>
          /\ \A p \in Range(players) :
                player_tiers'[p] - player_tiers[p] \in { -1, 0, 1 }
          /\ { m[1] : m \in Range(ret'.promoted) }
                \cap { m[1] : m \in Range(ret'.relegated) } = {}
          /\ \A t \in 1..4 :
                Cardinality(TierMembers(player_tiers', t))
                  = Cardinality(TierMembers(player_tiers, t)) ]_vars

\* a tiered session has ended with swaps across all three boundaries
C9_Witness ==
    /\ ret.op = "new_session"
    /\ current_session = 3
    /\ Len(ret.promoted) = 6 /\ Len(ret.relegated) = 6

C11_SeededByResultsAlone ==
    [][ EndsSeedingSession =>
          \A x, y \in Range(players) :
             player_tiers'[x] < player_tiers'[y] => ~Better(y, x) ]_vars

----------------------------------------------------------------------------
(* Properties of tiered rounds *)

\* generate_round appends a tiered round in this step
GeneratesTieredRound ==
    /\ app = SeededApp
    /\ ~is_seeding_session
    /\ ret'.op = "generate_round"
    /\ ret'.result = "Round"
    /\ Len(session_rounds') = Len(session_rounds) + 1

\* the round this step appends
NewRound == session_rounds'[Len(session_rounds')]

\* C12: in a tiered round a tier of p players with c configured courts plays
\* on min(c, p div 4) courts, 4 players on each, and its other players sit
\* out.
C12_TierPlaysConfiguredCourts ==
    [][ GeneratesTieredRound =>
          \A t \in 1..4 :
            LET members == Range(get_tier_players(t))
                configured == Len(DictGet(tier_court_assignments, t, <<>>))
                expected == Min(configured, Cardinality(members) \div 4)
                played == { i \in DOMAIN NewRound.courts :
                              Range(NewRound.courts[i].players) \subseteq members }
            IN  /\ Cardinality(played) = expected
                /\ \A i \in played : Len(NewRound.courts[i].players) = 4
                /\ Cardinality(members \cap Range(NewRound.sitting_players))
                     = Cardinality(members) - 4 * expected ]_vars

\* C13: under the mappings the program installs no two matches of a tiered
\* round carry the same court number.
C13_CourtsDistinct ==
    [][ GeneratesTieredRound =>
          \A i, j \in DOMAIN NewRound.courts :
             NewRound.courts[i].court = NewRound.courts[j].court => i = j ]_vars

\* ---------------------------------------------------------------------------
\* Archiving of sessions
\* ---------------------------------------------------------------------------

\* a step that ends the current session
EndsSession == app = SeededApp /\ ret'.op = "new_session"

\* the newest entry of the history after the step
Archived == session_history'[Len(session_history')]

\* C14: every new_session appends exactly one entry to the history, holding
\* the number and rounds of the session that ends, its final rankings and the
\* seed assignments or promotions and relegations that were applied.
C14_EverySessionArchived ==
    [][ EndsSession =>
          /\ Len(session_history') = Len(session_history) + 1
          /\ SubSeq(session_history', 1, Len(session_history)) = session_history
          /\ Archived.session_number = current_session
          /\ Archived.rounds = session_rounds
          /\ Archived.rankings = get_rankings(players, player_stats, player_tiers)
          /\ Archived.promoted = ret'.promoted
          /\ Archived.relegated = ret'.relegated
          /\ is_seeding_session =>
               \A p \in Range(players) :
                  \/ player_tiers'[p] = 1 /\ p \in Range(Archived.seeded_tier1)
                  \/ player_tiers'[p] = 2 /\ p \in Range(Archived.seeded_tier2)
                  \/ player_tiers'[p] = 3 /\ p \in Range(Archived.seeded_tier3)
                  \/ player_tiers'[p] = 4 /\ p \in Range(Archived.seeded_tier4) ]_vars

C16_SessionStartsClean ==
    [][ EndsSession =>
          /\ \A p \in Range(players) :
                /\ player_stats'[p].games_played = 0
                /\ player_stats'[p].total_points = 0
                /\ player_stats'[p].total_points_against = 0
                /\ player_stats'[p].rounds_sat_out = 0
                /\ player_stats'[p].last_sat_out_round = -2
          /\ session_rounds' = <<>>
          /\ current_session' = current_session + 1
          /\ player_tiers' =
               IF is_seeding_session
               THEN perform_seeding(players, player_stats, player_tiers).player_tiers
               ELSE perform_promotion_relegation(players, player_stats,
                                                 player_tiers).player_tiers ]_vars

\* a session has ended in which a player had played a game
C16_Witness ==
    /\ app = SeededApp
    /\ ret.op = "new_session"
    /\ session_history # <<>>
    /\ \E e \in Range(session_history[Len(session_history)].rankings) :
          e.games_played > 0 /\ player_stats[e.player].games_played = 0

\* C17: a league that never ended a session is in its seeding session; under
\* add_player, remove_player, generate_round, record_game_score and
\* new_session the seeding session ends only at a new_session, every
\* new_session leaves the league tiered, and a tiered league never seeds again.
C17_SeedingOnlyOnce ==
    /\ [](app = SeededApp /\ current_session = 1 => is_seeding_session)
    /\ [][ /\ is_seeding_session' # is_seeding_session => EndsSession
           /\ EndsSession => ~is_seeding_session'
           /\ ~is_seeding_session => ~is_seeding_session' ]_vars

\* the seeding session has ended and a later call was made in the tiered league
C17_Witness ==
    /\ app = SeededApp
    /\ ~is_seeding_session
    /\ session_history # <<>>
    /\ session_history[1].session_number = 1
    /\ ret.op # "new_session"

\* C18: generate_round and record_game_score leave every tier as it is, and
\* add_player and remove_player leave the tier of every other player as it
\* is: only new_session changes the tier of a player who stays on the roster.
C18_TiersFixedWithinSession ==
    [][ app = SeededApp /\ ~EndsSession =>
          \A p \in Range(players) \cap Range(players') :
             /\ (p \in DOMAIN player_tiers) = (p \in DOMAIN player_tiers')
             /\ p \in DOMAIN player_tiers => player_tiers'[p] = player_tiers[p] ]_vars

\* a player joined or left a tiered league whose players are not all in tier 4
C18_Witness ==
    /\ app = SeededApp
    /\ ~is_seeding_session
    /\ ret.op \in { "add_player", "remove_player" }
    /\ ret.result = "True"
    /\ \E p \in Range(players) : p # ret.name /\ player_tiers[p] # 4

\* ---------------------------------------------------------------------------
\* Rankings
\* ---------------------------------------------------------------------------

\* what get_rankings of the running league returns
Rankings ==
    IF app = RoundRobinApp THEN RR_get_rankings(players, player_stats)
    ELSE get_rankings(players, player_stats, player_tiers)

\* the fewest games any player of the roster has played
MinGames ==
    CHOOSE n \in { player_stats[p].games_played : p \in Range(players) } :
       \A p \in Range(players) : n <= player_stats[p].games_played

\* the games a line of the rankings says its points come from
CountedGames(line) ==
    IF "counted_games" \in DOMAIN line THEN line.counted_games
    ELSE line.games_played

\* the scored matches of a round a player took part in, as that player's
\* points for and against, in the order of the round's matches
RECURSIVE GamesInRound(_, _)
GamesInRound(courts, p) ==
    IF courts = <<>> THEN <<>>
    ELSE LET c == Head(courts)
             mine == IF ~c.completed THEN <<>>
                     ELSE IF p \in Range(c.team1)
                          THEN << [ points_for |-> c.team1_score,
                                    points_against |-> c.team2_score ] >>
                     ELSE IF p \in Range(c.team2)
                          THEN << [ points_for |-> c.team2_score,
                                    points_against |-> c.team1_score ] >>
                     ELSE <<>>
         IN  mine \o GamesInRound(Tail(courts), p)

\* the games of the session a player has a score for, first round first
RECURSIVE RecordedGames(_, _)
RecordedGames(rounds, p) ==
    IF rounds = <<>> THEN <<>>
    ELSE GamesInRound(Head(rounds).courts, p) \o RecordedGames(Tail(rounds), p)

RECURSIVE PointsFor(_)
PointsFor(scores) ==
    IF scores = <<>> THEN 0 ELSE Head(scores).points_for + PointsFor(Tail(scores))

RECURSIVE PointsAgainst(_)
PointsAgainst(scores) ==
    IF scores = <<>> THEN 0
    ELSE Head(scores).points_against + PointsAgainst(Tail(scores))

\* C19: every line of the rankings counts as many games as the player with
\* the fewest games has played, and its points for and against are the sums
\* over that many of the player's first recorded games.
C19_RankingsEqualized ==
    players # <<>> =>
      \A i \in DOMAIN Rankings :
         LET line == Rankings[i]
             counted == Slice(RecordedGames(session_rounds, line.player), 0, MinGames)
         IN  /\ CountedGames(line) = MinGames
             /\ CountedGames(line) <= line.games_played
             /\ line.points = PointsFor(counted)
             /\ line.points_against = PointsAgainst(counted)

\* C20: get_rankings of the seeded league lists the players by tier, best
\* tier first, within a tier by points, most first, and among equal points by
\* differential, largest first: no player of a lower tier stands before a
\* player of a higher tier.
C20_TierRanksFirst ==
    app = SeededApp =>
      LET r == Rankings
      IN  \A i, j \in DOMAIN r :
             i < j =>
               \/ r[i].tier < r[j].tier
               \/ /\ r[i].tier = r[j].tier
                  /\ \/ r[i].points > r[j].points
                     \/ /\ r[i].points = r[j].points
                        /\ r[i].differential >= r[j].differential

\* a player stands before a player of a lower tier who has more points, and
\* before a player of the same tier and points with a smaller differential
C20_Witness ==
    /\ app = SeededApp
    /\ LET r == Rankings
       IN  /\ \E i, j \in DOMAIN r :
                 /\ i < j
                 /\ r[i].tier < r[j].tier
                 /\ r[i].points < r[j].points
           /\ \E i, j \in DOMAIN r :
                 /\ i < j
                 /\ r[i].tier = r[j].tier
                 /\ r[i].points = r[j].points
                 /\ r[i].differential > r[j].differential

\* ---------------------------------------------------------------------------
\* Leagues that count wins and losses
\* ---------------------------------------------------------------------------

\* what get_rankings of the running win/loss league returns
WinLossRankings ==
    IF app = MixedDoublesApp THEN MD_get_rankings(players, player_stats)
    ELSE RR_get_rankings(players, player_stats)

\* line x does not rank below line y on (wins, differential, points)
NotBelow(x, y) ==
    \/ x.wins > y.wins
    \/ /\ x.wins = y.wins
       /\ \/ x.differential > y.differential
          \/ x.differential = y.differential /\ x.points >= y.points

\* C21: the rankings of RoundRobinLeague and of MixedDoublesLeague list a
\* line before another only when its (wins, differential, points) is
\* lexicographically greater or equal.
C21_RankedByWinsDifferentialPoints ==
    app \in { RoundRobinApp, MixedDoublesApp } =>
      LET r == WinLossRankings
      IN  \A i, j \in DOMAIN r : i < j => NotBelow(r[i], r[j])

\* ---------------------------------------------------------------------------
\* Rounds of the seeding session and of the round-robin league
\* ---------------------------------------------------------------------------

\* a call of generate_round in the seeding session or in RoundRobinLeague
CallsSeedingRound ==
    /\ \/ app = SeededApp /\ is_seeding_session
       \/ app = RoundRobinApp
    /\ ret'.op = "generate_round"

\* C22: with n >= 4 players generate_round of the seeding session and of
\* RoundRobinLeague appends a round of active_courts(n) courts numbered
\* 1..active_courts(n) in order, each of 4 distinct players with the first two
\* as team1 and the last two as team2, and n - 4 * active_courts(n) players
\* sitting out.
C22_SeedingRoundShape ==
    [][ CallsSeedingRound /\ Len(players) >= 4 =>
          LET n == Len(players)
              courts == NewRound.courts
          IN  /\ ret'.result = "Round"
              /\ Len(session_rounds') = Len(session_rounds) + 1
              /\ Len(courts) = active_courts(n)
              /\ \A i \in DOMAIN courts :
                    /\ courts[i].court = i
                    /\ Len(courts[i].players) = 4
                    /\ Cardinality(Range(courts[i].players)) = 4
                    /\ courts[i].team1 = SubSeq(courts[i].players, 1, 2)
                    /\ courts[i].team2 = SubSeq(courts[i].players, 3, 4)
              /\ Len(NewRound.sitting_players) = n - 4 * active_courts(n)
              /\ Cardinality(Range(NewRound.sitting_players))
                   = n - 4 * active_courts(n) ]_vars

\* a roster of 16 has generated a round of 4 courts with nobody sitting out
C22_Witness ==
    /\ app \in { SeededApp, RoundRobinApp }
    /\ Len(players) = 16
    /\ session_rounds # <<>>
    /\ Len(LastRound.courts) = 4
    /\ LastRound.sitting_players = <<>>

\* what get_active_courts of the running league returns
ActiveCourts ==
    IF app = MixedDoublesApp THEN MD_active_courts(Len(players))
    ELSE get_active_courts

\* the number of courts stated for a league of n players, or of n teams
StatedCourts(n, of_teams) ==
    LET players_on_court == IF of_teams THEN 2 ELSE 4
    IN  IF n < 2 * players_on_court THEN 1
        ELSE IF n < 3 * players_on_court THEN 2
        ELSE IF n < 4 * players_on_court THEN 3
        ELSE 4

\* C23: get_active_courts is a step function of the roster size that never
\* decreases: 1 court below 8 players, 2 for 8-11, 3 for 12-15 and 4 from 16
\* on, with the thresholds halved for teams (4, 6, 8); it is always in 1..4.
C23_ActiveCourtsSteps ==
    /\ ActiveCourts \in 1..4
    /\ ActiveCourts = StatedCourts(Len(players), app = MixedDoublesApp)
    /\ \A m \in 0..Len(players) :
          /\ active_courts(m) <= active_courts(Len(players))
          /\ MD_active_courts(m) <= MD_active_courts(Len(players))

\* a league of 8 teams plays on 4 courts
C23_Witness ==
    /\ app = MixedDoublesApp
    /\ Len(players) = 8
    /\ session_rounds # <<>>
    /\ Len(LastRound.courts) = 4

\* the wins of the participants of one side of a match
SideWins(stats, side) ==
    IF app = MixedDoublesApp THEN { stats[side.name].wins }
    ELSE { stats[p].wins : p \in Range(side) }

\* a call of record_game_score that stored a score
RecordsScore == ret'.op = "record_game_score" /\ ret'.result = "True"

\* the match a successful record_game_score has scored
Scored == session_rounds'[ret'.round_num].courts[ret'.index]

\* C24: record_game_score raises the wins of the participants of a side only
\* when the score of that side is strictly the greater one; with equal scores
\* nobody's wins change.
C24_WinNeedsGreaterScore ==
    [][ RecordsScore /\ app \in { RoundRobinApp, MixedDoublesApp } =>
          /\ Scored.team1_score <= Scored.team2_score =>
                SideWins(player_stats', Scored.team1) = SideWins(player_stats, Scored.team1)
          /\ Scored.team2_score <= Scored.team1_score =>
                SideWins(player_stats', Scored.team2) = SideWins(player_stats, Scored.team2) ]_vars

\* the statistics key of a roster entry: the team name in MixedDoublesLeague
StatsKey(entry) == IF app = MixedDoublesApp THEN entry.name ELSE entry

\* C25: in every league every participant of the roster has as many per-game
\* score records as games played.
C25_ScoreRecordPerGame ==
    \A i \in DOMAIN players :
       Len(player_stats[StatsKey(players[i])].game_scores)
         = player_stats[StatsKey(players[i])].games_played

\* ---------------------------------------------------------------------------
\* The roster
\* ---------------------------------------------------------------------------

\* a call of add_player of SeededLadderLeague or RoundRobinLeague
AddsPlayer == ret'.op = "add_player"

\* C26: add_player returns False and leaves the roster, the statistics, the
\* tiers, the display numbers and the next number as they are when the name
\* is empty or on the roster; otherwise it returns True and appends the name
\* at the end of the roster with statistics of zero.
C26_AddPlayerContract ==
    [][ AddsPlayer =>
          IF ret'.name = "" \/ ret'.name \in Range(players)
          THEN /\ ret'.result = "False"
               /\ UNCHANGED << players, player_stats, player_tiers, player_numbers,
                               next_player_number >>
          ELSE /\ ret'.result = "True"
               /\ players' = Append(players, ret'.name)
               /\ player_stats'[ret'.name].games_played = 0
               /\ player_stats'[ret'.name].total_points = 0
               /\ player_stats'[ret'.name].total_points_against = 0
               /\ player_stats'[ret'.name].rounds_sat_out = 0
               /\ player_stats'[ret'.name].game_scores = <<>> ]_vars

\* a name already on the roster was refused after a name had been added
C26_Witness ==
    /\ ret.op = "add_player"
    /\ ret.result = "False"
    /\ ret.name \in Range(players)
    /\ Len(players) = PlayersPerCourt + 1

\* C27: under add_player and remove_player the display numbers of the roster
\* are pairwise distinct, a player who is added gets a number greater than
\* every number handed out before, also when the name had been removed, and
\* remove_player leaves the numbers of the players who stay.
C27_DisplayNumbersNeverReused ==
    /\ [](app \in { SeededApp, RoundRobinApp } =>
            /\ \A p, q \in Range(players) :
                  p # q => player_numbers[p] # player_numbers[q]
            /\ \A p \in DOMAIN player_numbers :
                  player_numbers[p] < next_player_number)
    /\ [][ (app \in { SeededApp, RoundRobinApp }) =>
            /\ next_player_number' >= next_player_number
            /\ AddsPlayer /\ ret'.result = "True" =>
                  /\ player_numbers'[ret'.name] >= next_player_number
                  /\ next_player_number' > player_numbers'[ret'.name]
            /\ \A p \in Range(players) \cap Range(players') :
                  player_numbers'[p] = player_numbers[p] ]_vars

\* a name that was removed is on the roster again, with a number above those
\* of the players who stayed
C27_Witness ==
    /\ ret.op = "add_player"
    /\ ret.result = "True"
    /\ ret.name \in Range(FirstPlayers(PlayersPerCourt))
    /\ Len(players) = PlayersPerCourt
    /\ player_numbers[ret.name] = PlayersPerCourt + 1

\* ---------------------------------------------------------------------------
\* The save file
\* ---------------------------------------------------------------------------

\* C28: load_from_file of what save_to_file wrote leaves the league as it was
\* saved: roster, rounds, session number, statistics, history, tiers, seeding
\* flag, display numbers, next display number and tier-to-court mapping, for
\* every mapping the court setup can save.
C28_SaveLoadRoundTrip ==
    [][ ret.op = "save_to_file" /\ ret'.op = "load_from_file" =>
          UNCHANGED << players, session_rounds, current_session, player_stats,
                       session_history, player_tiers, is_seeding_session,
                       player_numbers, next_player_number,
                       tier_court_assignments >> ]_vars

\* ---------------------------------------------------------------------------
\* Tiered rounds
\* ---------------------------------------------------------------------------

\* the tier a player of the roster is in when a round is generated
TierOf(p) == DictGet(player_tiers, p, 2)

\* C29: in a tiered round the 4 players of a court are all of one tier and the
\* court number is one of the courts configured for that tier; the players of
\* a tier of fewer than 4 all sit out.
C29_CourtsWithinOneTier ==
    [][ GeneratesTieredRound =>
          /\ \A i \in DOMAIN NewRound.courts :
                LET on_court == NewRound.courts[i].players
                IN  /\ Len(on_court) = 4
                    /\ \A k \in DOMAIN on_court : TierOf(on_court[k]) = TierOf(on_court[1])
                    /\ NewRound.courts[i].court
                         \in Range(DictGet(tier_court_assignments, TierOf(on_court[1]), <<>>))
          /\ \A t \in 1..4 :
                LET members == { p \in Range(players) : TierOf(p) = t }
                IN  Cardinality(members) < 4 =>
                       members \subseteq Range(NewRound.sitting_players) ]_vars

\* a tiered round with a match and with a tier too small to play
C29_Witness ==
    /\ app = SeededApp
    /\ ~is_seeding_session
    /\ ret.op = "generate_round"
    /\ session_rounds # <<>>
    /\ LastRound.courts # <<>>
    /\ \E p \in Range(LastRound.sitting_players) :
          Cardinality({ q \in Range(players) : TierOf(q) = TierOf(p) }) \in 1..3

\* C30: the history entry written when the seeding session ends says
\* is_seeding true and holds the seed lists; the entry written when a tiered
\* session ends says is_seeding false.
C30_HistorySaysSeeding ==
    [][ EndsSession /\ Len(session_history') = Len(session_history) + 1 =>
          /\ Archived.is_seeding = is_seeding_session
          /\ is_seeding_session =>
                Range(Archived.seeded_tier1) \cup Range(Archived.seeded_tier2)
                  \cup Range(Archived.seeded_tier3) \cup Range(Archived.seeded_tier4)
                  = Range(players) ]_vars

----------------------------------------------------------------------------
(* Properties of the sit-out priority *)

\* the place of a pool member in the pool
PoolIndex(p) == CHOOSE i \in DOMAIN players : players[i] = p

\* the priority score the selection gave a pool member
SelectScore(p) == sit_score(player_stats, p, ret.current_round_num)

\* C31: among the eligible members of the pool select_sitting_players picks
\* those with the highest score games_played*10 - rounds_sat_out*20 +
\* (current_round_num - last_sat_out_round), ties going to the earlier one in
\* pool order: no eligible member left playing has a strictly higher score
\* than an eligible member selected to sit, nor the same score and an earlier
\* place in the pool.
C31_HighestScoresSit ==
    Selected =>
        LET eligible == Range(players) \ SatOutLastRound
            returned == Range(ret.result)
        IN  \A p \in eligible \ returned, q \in eligible \cap returned :
               /\ SelectScore(p) <= SelectScore(q)
               /\ SelectScore(p) = SelectScore(q) => PoolIndex(q) < PoolIndex(p)

\* a selection that sat an eligible member out ahead of an earlier one with a
\* lower score, and left a later one with the same score playing
C31_Witness ==
    /\ Selected
    /\ LET eligible == Range(players) \ SatOutLastRound
           returned == Range(ret.result)
       IN  /\ \E p \in eligible \ returned, q \in eligible \cap returned :
                 /\ SelectScore(p) < SelectScore(q)
                 /\ PoolIndex(p) < PoolIndex(q)
           /\ \E p \in eligible \ returned, q \in eligible \cap returned :
                 SelectScore(p) = SelectScore(q)

----------------------------------------------------------------------------
(* Properties of the greedy ladder *)

\* a step that is a call of LadderLeague.generate_round
LadderGenerates == app = LadderApp /\ ret'.op = "generate_round"

\* the players of the courts of a round, court after court
Assigned(courts) == Flatten([ c \in DOMAIN courts |-> courts[c].players ])

\* C32: with a roster of at least 16 every generate_round call of the greedy
\* ladder, in any sequence of calls, succeeds and returns exactly 4 courts
\* numbered 1..4 of 4 players each, the 16 assigned players being pairwise
\* distinct members of the roster.
C32_SixteenFillFourCourts ==
    [][ (LadderGenerates /\ Len(players) >= 16)
          => /\ ret'.result = "courts"
             /\ ret'.error = "None"
             /\ Len(ret'.courts) = 4
             /\ \A c \in 1..4 : /\ ret'.courts[c].court = c
                                /\ Len(ret'.courts[c].players) = 4
             /\ Cardinality(Range(Assigned(ret'.courts))) = 16
             /\ Range(Assigned(ret'.courts)) \subseteq Range(players) ]_vars

\* the second round of a roster of 17 that lost a player after the first
C32_Witness ==
    /\ app = LadderApp
    /\ ret.op = "generate_round"
    /\ ret.result = "courts"
    /\ Len(players) = 16
    /\ calls = 1
    /\ Len(court_history) = 32

\* C33: the greedy ladder needs at least 8 players: generate_round returns an
\* error with fewer than 8 players and produces a round (courts, no error)
\* with 8 or more.
C33_EightPlayersSuffice ==
    [][ LadderGenerates
          => IF Len(players) < 8
             THEN ret'.result = "None" /\ ret'.error # "None"
             ELSE ret'.result = "courts" /\ ret'.error = "None" ]_vars

\* C34: whenever generate_round of the greedy ladder returns an error (too few
\* players, or not all courts filled) match_history and court_history are
\* exactly as before the call; only a fully successful round adds to them.
C34_ErrorLeavesHistories ==
    [][ LadderGenerates
          => IF ret'.error # "None"
             THEN UNCHANGED << match_history, court_history >>
             ELSE /\ Len(match_history') > Len(match_history)
                  /\ Len(court_history') > Len(court_history)
                  /\ SubSeq(match_history', 1, Len(match_history)) = match_history
                  /\ SubSeq(court_history', 1, Len(court_history)) = court_history ]_vars

\* a round refused after the league has played one: the roster of 16 lost a
\* player, three courts were filled and the histories kept the first round
C34_Witness ==
    /\ app = LadderApp
    /\ ret.op = "generate_round"
    /\ ret.error # "None"
    /\ Len(ret.courts) = 3
    /\ Len(court_history) = 16

\* the players placed before slot k of the c-th court of a round
PlacedBefore(courts, c, k) ==
    Range(Assigned(SubSeq(courts, 1, c - 1)))
      \cup { courts[c].players[j] : j \in 1..(k - 1) }

\* the cost of putting player x into slot k of the c-th court, by the
\* histories as they were before the call
SlotCost(courts, c, k, x) ==
    LET met == [ j \in 1..3 |->
                   IF j < k
                   THEN get_matchup_count(match_history, x, courts[c].players[j])
                   ELSE 0 ]
    IN  10 * (met[1] + met[2] + met[3])
          + 5 * get_court_count(court_history, x, courts[c].court)

\* the place of a player in the shuffled pool of the call ret holds
ShuffledIndex(pool, x) == CHOOSE i \in DOMAIN pool : pool[i] = x

\* C35: in the greedy strategy each player placed in a court slot has the
\* minimum cost among the players still available at that moment, the cost
\* being 10 * (prior match-history entries shared with each player already
\* placed on this court, summed) + 5 * (prior rounds this player was on this
\* court number); among players of equal cost the first in the shuffled pool
\* is chosen.
C35_CheapestPlayerPlaced ==
    [][ LadderGenerates
          => LET courts == ret'.courts
                 pool == ret'.available_players
             IN  \A c \in DOMAIN courts : \A k \in DOMAIN courts[c].players :
                    LET chosen == courts[c].players[k]
                        cost == SlotCost(courts, c, k, chosen)
                        placed == PlacedBefore(courts, c, k)
                    IN  /\ chosen \in Range(pool) \ placed
                        /\ \A x \in Range(pool) \ (placed \cup { chosen }) :
                              LET other == SlotCost(courts, c, k, x)
                              IN  /\ cost <= other
                                  /\ cost = other
                                       => ShuffledIndex(pool, chosen)
                                            < ShuffledIndex(pool, x) ]_vars

\* a second round in which the histories moved a player ahead of one earlier
\* in the shuffled pool
C35_Witness ==
    /\ app = LadderApp
    /\ ret.op = "generate_round"
    /\ Len(court_history) = 32
    /\ \E c \in DOMAIN ret.courts : \E k \in 1..4 :
          \E x \in Range(ret.available_players) \ PlacedBefore(ret.courts, c, k) :
             ShuffledIndex(ret.available_players, x)
               < ShuffledIndex(ret.available_players, ret.courts[c].players[k])

\* C36: the court-filling loop of the greedy generate_round ends after at
\* most num_courts (4) iterations for every roster and history: every
\* iteration that starts adds one full court, so the 1000-attempt cap is
\* never the reason the loop stops.
C36_LoopAddsCourtEachAttempt ==
    [][ LadderGenerates
          => /\ ret'.attempts = Len(ret'.courts)
             /\ ret'.attempts <= num_courts
             /\ ret'.attempts < max_attempts
             /\ \A c \in DOMAIN ret'.courts : Len(ret'.courts[c].players) = 4
             /\ Len(ret'.courts) = num_courts
                  \/ Len(ret'.available_players) - 4 * ret'.attempts < 4 ]_vars

\* a loop that stopped for want of players after three iterations of a
\* roster with a round behind it
C36_Witness ==
    /\ app = LadderApp
    /\ ret.op = "generate_round"
    /\ ret.attempts = 3
    /\ Len(players) = 15
    /\ court_history # <<>>

----------------------------------------------------------------------------
(* Properties of the sit-out bookkeeping *)

\* the numbers of the rounds of the current session that list p as sitting
RoundsSat(p) ==
    { session_rounds[r].round_number :
        r \in { i \in DOMAIN session_rounds :
                  \E k \in DOMAIN session_rounds[i].sitting_players :
                     session_rounds[i].sitting_players[k] = p } }

\* C37: in every reachable state of the tiered engine under generate_round,
\* record_game_score and new_session, for every participant on the roster
\* since the session began, rounds_sat_out is the number of rounds of the
\* current session whose sitting-out list contains the participant, and
\* last_sat_out_round is the number of the latest such round, or -2 when
\* there is none.
C37_SitOutStatsMatchRounds ==
    \A p \in Range(players) :
        LET sat == RoundsSat(p)
        IN  /\ player_stats[p].rounds_sat_out = Cardinality(sat)
            /\ player_stats[p].last_sat_out_round
                 = IF sat = {} THEN -2
                   ELSE CHOOSE r \in sat : \A q \in sat : q <= r

\* a session begun by new_session whose first round left one player sitting
\* out and four playing
C37_Witness ==
    /\ app = SeededApp
    /\ session_history # <<>>
    /\ Len(session_rounds) = 1
    /\ \E p, q \in Range(players) :
          /\ player_stats[p].rounds_sat_out = 1
          /\ player_stats[p].last_sat_out_round = 1
          /\ player_stats[q].rounds_sat_out = 0

----------------------------------------------------------------------------
(* Properties of the maps keyed by player *)

\* C38: in every reachable state of the tiered engine under add_player,
\* remove_player, generate_round, record_game_score, new_session,
\* clear_current_session, reset_all and clear_all_data, the key sets of the
\* statistics map, the tier map and the display-number map are each exactly
\* the set of roster names, and every tier is in 1..4.
C38_MapsKeyedByRoster ==
    /\ DOMAIN player_stats = Range(players)
    /\ DOMAIN player_tiers = Range(players)
    /\ DOMAIN player_numbers = Range(players)
    /\ \A p \in DOMAIN player_tiers : player_tiers[p] \in 1..4

\* a roster that lost a player of the round in play before a call that walks
\* the roster's statistics, and a league cleared after players were entered
C38_Witness ==
    /\ app = SeededApp
    /\ calls = 2
    /\ \/ /\ ret.op \in { "record_game_score", "new_session",
                          "clear_current_session", "reset_all" }
          /\ Len(players) = PlayersPerCourt - 1
       \/ /\ ret.op = "clear_all_data"
          /\ next_player_number = 1

----------------------------------------------------------------------------
(* Properties of the rotation of the nine *)

\* C39: for a fixed roster of 9 players in seeding mode, every match of each
\* round being scored before the next round is generated, in every reachable
\* state of a session the rounds_sat_out counts of any two participants
\* differ by at most 1: the single sit-out of each round goes through the
\* whole roster before anyone sits out a second time.
C39_SitOutsWithinOne ==
    \A p, q \in Range(players) :
        player_stats[p].rounds_sat_out - player_stats[q].rounds_sat_out <= 1

\* the tenth round: everybody has sat out once and the first player twice
C39_Witness ==
    /\ Len(session_rounds) = 10
    /\ \A p \in Range(players) : player_stats[p].rounds_sat_out >= 1
    /\ \E p \in Range(players) : player_stats[p].rounds_sat_out = 2

====
